---- MODULE Spec2Model ----
(***************************************************************************)
(* Peadra: the ledger store (src/src/database/db_manager.py), the transfer  *)
(* handling of the transaction view (src/src/views/transactions.py), the   *)
(* transaction form (src/src/components/modals.py), the CSV import         *)
(* (src/src/views/import_data.py), the accounts view                       *)
(* (src/src/views/accounts.py) and the breakdown of the dashboard          *)
(* (src/src/views/dashboard.py).                                           *)
(*                                                                         *)
(* Encodings.  Amounts are integer-valued magnitudes (SQLite REAL sums of  *)
(* integer-valued reals are exact).  An ISO date "YYYY-MM-DD" is the       *)
(* integer YYYYMMDD, which orders as the text does.  A description is the  *)
(* pair <<prefix, rest>> of the text, split at the transfer prefix it      *)
(* starts with (prefix "" when it starts with none), so that               *)
(* str.startswith(p) is a test of the first component and desc[len(p):]    *)
(* is the second.  SQL NULL / Python None is NULL for integer columns and  *)
(* None for text columns.                                                  *)
(***************************************************************************)
EXTENDS Integers, Sequences, FiniteSets, TLC

VARIABLES
    categories,     \* table categories: id -> [name, type, color]
    transactions,   \* table transactions: id -> row
    clock,          \* the wall clock read by CURRENT_TIMESTAMP / datetime.now()
    last,           \* the last call made and what it returned or raised
    connection,     \* self.connection: NULL or the connection object held
    handles         \* the connection objects made so far: "open" or "closed"

vars == <<categories, transactions, clock, last, connection, handles>>

-----------------------------------------------------------------------------
(* Bounds of the model *)

MaxTx == 2          \* Spec: largest transaction id handed out
MaxAcctTx == 2      \* SpecAccounts: largest transaction id handed out
MaxCatId == 4       \* SpecAccounts: largest account id handed out
MaxViewTx == 3      \* SpecView: largest transaction id handed out
MaxGroupLen == 3    \* SpecGroup: longest transaction list
MaxUpdTx == 2       \* SpecUpdate: largest transaction id handed out
MaxListLen == 3     \* SpecList: most stored transactions
MaxNameCatId == 4   \* SpecNames: largest account id handed out
MaxRenTx == 2       \* SpecRename: largest transaction id handed out
MaxStatsLen == 2    \* SpecStats: most stored transactions
MaxClock == 1       \* SpecUpdate: latest reading of the clock

-----------------------------------------------------------------------------
(* Values *)

NULL == 0
None == "None"

AccountTypes == {"checking", "savings"}
TransactionTypes == {"income", "expense", "transfer"}

DefaultCategories ==
    (1 :> [name |-> "Checking Account", type |-> "checking", color |-> "#4CAF50"])
    @@ (2 :> [name |-> "Savings Account A", type |-> "savings", color |-> "#2196F3"])
    @@ (3 :> [name |-> "Savings Account B", type |-> "savings", color |-> "#009688"])

Max(S) == CHOOSE x \in S : \A y \in S : y <= x

\* The elements of a list.
Range(seq) == {seq[n] : n \in 1..Len(seq)}

\* INTEGER PRIMARY KEY without AUTOINCREMENT: one more than the largest rowid.
NextRowId(table) == IF DOMAIN table = {} THEN 1 ELSE Max(DOMAIN table) + 1

\* The table without the rows whose ids are in ids.
Without(table, ids) == [i \in DOMAIN table \ ids |-> table[i]]

\* A call: its name and the arguments that identify it (an id, a second id,
\* a flag, the names of the keyword arguments); data is the dict a view
\* handler was given.
Call(op, id, other, flag, keys) ==
    [op |-> op, id |-> id, other |-> other, flag |-> flag, keys |-> keys]

\* The call and what it returned (truthy or not, and the integer if any) ...
Returned(call, ok, val) ==
    [op |-> call.op, id |-> call.id, other |-> call.other, flag |-> call.flag,
     keys |-> call.keys, data |-> <<>>, ok |-> ok, val |-> val, exc |-> ""]

\* ... or the exception it raised.
Raised(call, exc) ==
    [op |-> call.op, id |-> call.id, other |-> call.other, flag |-> call.flag,
     keys |-> call.keys, data |-> <<>>, ok |-> FALSE, val |-> 0, exc |-> exc]

-----------------------------------------------------------------------------
(* The connection *)

\* _get_connection(): sqlite3.connect makes a connection object when the
\* manager holds none; the object held is used otherwise.
_get_connection ==
    IF connection = NULL
    THEN /\ connection' = NextRowId(handles)
         /\ handles' = handles @@ (NextRowId(handles) :> "open")
    ELSE UNCHANGED <<connection, handles>>

\* close() that leaves the reference in place.
close_keep_reference ==
    /\ UNCHANGED <<categories, transactions, clock, connection>>
    /\ handles' = IF connection # NULL
                  THEN [handles EXCEPT ![connection] = "closed"]
                  ELSE handles
    /\ last' = Returned(Call("close", 0, 0, FALSE, {}), TRUE, 0)

\* close(): the connection held, if any, is closed and the reference cleared.
close ==
    /\ UNCHANGED <<categories, transactions, clock>>
    /\ handles' = IF connection # NULL
                  THEN [handles EXCEPT ![connection] = "closed"]
                  ELSE handles
    /\ connection' = NULL
    /\ last' = Returned(Call("close", 0, 0, FALSE, {}), TRUE, 0)

-----------------------------------------------------------------------------
(* Aggregation queries *)

\* CASE WHEN transaction_type = 'income' THEN amount
\*      WHEN transaction_type = 'expense' THEN -amount ELSE 0 END
SignedAmountFlipped(t) ==
    CASE t.transaction_type = "income" -> t.amount
      [] t.transaction_type = "expense" -> t.amount
      [] OTHER -> 0

SignedAmount(t) ==
    CASE t.transaction_type = "income" -> t.amount
      [] t.transaction_type = "expense" -> 0 - t.amount
      [] OTHER -> 0

\* SUM(...) over the selected rows: NULL over no row.
RECURSIVE SumSigned(_, _)
SumSigned(tx, ids) ==
    IF ids = {} THEN 0
    ELSE LET i == CHOOSE x \in ids : TRUE
         IN SignedAmount(tx[i]) + SumSigned(tx, ids \ {i})

SqlSumSigned(tx, ids) ==
    IF ids = {} THEN [null |-> TRUE, v |-> 0]
    ELSE [null |-> FALSE, v |-> SumSigned(tx, ids)]

Coalesce(r, d) == IF r.null THEN d ELSE r.v

\* transactions t LEFT JOIN categories c ON t.category_id = c.id: c.type of
\* the joined row, NULL when no account matches.
JoinedTypeDefaulted(cat, t) ==
    IF t.category_id # NULL /\ t.category_id \in DOMAIN cat
    THEN cat[t.category_id].type
    ELSE "savings"

JoinedType(cat, t) ==
    IF t.category_id # NULL /\ t.category_id \in DOMAIN cat
    THEN cat[t.category_id].type
    ELSE None

RowsOfType(cat, tx, type) ==
    {i \in DOMAIN tx : JoinedType(cat, tx[i]) = type}

get_total_patrimony(tx) == Coalesce(SqlSumSigned(tx, DOMAIN tx), 0)

get_balance_unfiltered(cat, tx) == Coalesce(SqlSumSigned(tx, DOMAIN tx), 0)

get_balance(cat, tx) ==
    Coalesce(SqlSumSigned(tx, RowsOfType(cat, tx, "checking")), 0)

get_savings_total(cat, tx) ==
    Coalesce(SqlSumSigned(tx, RowsOfType(cat, tx, "savings")), 0)

\* WHERE t.date < ?
BeforeOrOnDate(tx, date_limit) == {i \in DOMAIN tx : tx[i].date <= date_limit}

BeforeDate(tx, date_limit) == {i \in DOMAIN tx : tx[i].date < date_limit}

get_history_patrimony(tx, date_limit) ==
    Coalesce(SqlSumSigned(tx, BeforeDate(tx, date_limit)), 0)

get_history_savings(cat, tx, date_limit) ==
    Coalesce(SqlSumSigned(tx, BeforeDate(tx, date_limit)
                                \cap RowsOfType(cat, tx, "savings")), 0)

get_history_balance(cat, tx, date_limit) ==
    Coalesce(SqlSumSigned(tx, BeforeDate(tx, date_limit)
                                \cap RowsOfType(cat, tx, "checking")), 0)

\* f"{year}-{month:02d}-01" for a four-digit year
FirstOfMonth(year, month) == year * 10000 + month * 100 + 1

\* SUM(CASE WHEN t.transaction_type = type THEN t.amount ELSE 0 END)
RECURSIVE SumOfType(_, _, _)
SumOfType(tx, ids, type) ==
    IF ids = {} THEN 0
    ELSE LET i == CHOOSE x \in ids : TRUE
         IN (IF tx[i].transaction_type = type THEN tx[i].amount ELSE 0)
                + SumOfType(tx, ids \ {i}, type)

SqlSumOfType(tx, ids, type) ==
    IF ids = {} THEN [null |-> TRUE, v |-> 0]
    ELSE [null |-> FALSE, v |-> SumOfType(tx, ids, type)]

\* WHERE (t.date >= ? AND t.date < ?)
\*   AND (c.type = 'checking' OR t.category_id IS NULL)
MonthlyRowsWithSavings(cat, tx, start_date, end_date) ==
    {i \in DOMAIN tx : tx[i].date >= start_date /\ tx[i].date < end_date}

MonthlyRows(cat, tx, start_date, end_date) ==
    {i \in DOMAIN tx :
        /\ tx[i].date >= start_date /\ tx[i].date < end_date
        /\ (JoinedType(cat, tx[i]) = "checking" \/ tx[i].category_id = NULL)}

get_monthly_summary(cat, tx, year, month) ==
    LET start_date == FirstOfMonth(year, month)
        end_date == IF month = 12 THEN FirstOfMonth(year + 1, 1)
                    ELSE FirstOfMonth(year, month + 1)
        rows == MonthlyRows(cat, tx, start_date, end_date)
        income == Coalesce(SqlSumOfType(tx, rows, "income"), 0)
        expenses == Coalesce(SqlSumOfType(tx, rows, "expense"), 0)
    IN [income |-> income, expenses |-> expenses, balance |-> income - expenses]

\* SELECT id, name FROM categories, with no ORDER BY: the accounts in any
\* order.
AccountOrders(cat) ==
    {order \in [1..Cardinality(DOMAIN cat) -> DOMAIN cat] :
        \A m, n \in 1..Cardinality(DOMAIN cat) : m # n => order[m] # order[n]}

\* ... WHERE t.category_id = ?
AccountValueOfAll(tx, acc_id) == Coalesce(SqlSumSigned(tx, DOMAIN tx), 0)

AccountValue(tx, acc_id) ==
    Coalesce(SqlSumSigned(tx, {i \in DOMAIN tx : tx[i].category_id = acc_id}), 0)

\* get_accounts_distribution(): the lists it may return.
get_accounts_distribution(cat, tx) ==
    {[n \in 1..Len(order) |->
         [name |-> cat[order[n]].name, value |-> AccountValue(tx, order[n])]] :
        order \in AccountOrders(cat)}

-----------------------------------------------------------------------------
(* Accounts *)

NameTaken(cat, name, except) ==
    \E i \in DOMAIN cat \ {except} : cat[i].name = name

\* The call and the name, colour and type it was given.
CategoryCall(op, category_id, name, color, account_type) ==
    [Returned(Call(op, category_id, 0, FALSE, {}), TRUE, 0) EXCEPT
        !.data = [name |-> name, color |-> color, account_type |-> account_type]]

add_category_any_type(name, color, account_type) ==
    /\ _get_connection
    /\ UNCHANGED <<transactions, clock>>
    /\ IF NameTaken(categories, name, NULL)
       THEN /\ UNCHANGED categories
            /\ last' = [CategoryCall("add_category", 0, name, color, account_type)
                            EXCEPT !.ok = FALSE, !.val = 0 - 1]
       ELSE LET id == NextRowId(categories)
            IN /\ categories' = categories @@
                      (id :> [name |-> name, type |-> account_type, color |-> color])
               /\ last' = [CategoryCall("add_category", 0, name, color, account_type)
                               EXCEPT !.val = id]

add_category(name, color, account_type) ==
    /\ _get_connection
    /\ UNCHANGED <<transactions, clock>>
    /\ IF NameTaken(categories, name, NULL) \/ account_type \notin AccountTypes
       THEN \* sqlite3.IntegrityError (UNIQUE or CHECK), caught
            /\ UNCHANGED categories
            /\ last' = [CategoryCall("add_category", 0, name, color, account_type)
                            EXCEPT !.ok = FALSE, !.val = 0 - 1]
       ELSE LET id == NextRowId(categories)
            IN /\ categories' = categories @@
                      (id :> [name |-> name, type |-> account_type, color |-> color])
               /\ last' = [CategoryCall("add_category", 0, name, color, account_type)
                               EXCEPT !.val = id]

update_category_any_name(category_id, name, color, account_type) ==
    /\ _get_connection
    /\ UNCHANGED <<transactions, clock>>
    /\ IF category_id \notin DOMAIN categories
          \/ (account_type # None /\ account_type \notin AccountTypes)
       THEN /\ UNCHANGED categories
            /\ last' = [CategoryCall("update_category", category_id, name, color,
                                     account_type) EXCEPT !.ok = FALSE]
       ELSE /\ categories' = [categories EXCEPT ![category_id] =
                   [name |-> name,
                    type |-> IF account_type # None THEN account_type ELSE @.type,
                    color |-> color]]
            /\ last' = CategoryCall("update_category", category_id, name, color,
                                    account_type)

\* update_category that writes the default type when none is given.
update_category_default_type(category_id, name, color, account_type) ==
    /\ _get_connection
    /\ UNCHANGED <<transactions, clock>>
    /\ IF category_id \notin DOMAIN categories \/ NameTaken(categories, name, category_id)
       THEN /\ UNCHANGED categories
            /\ last' = [CategoryCall("update_category", category_id, name, color,
                                     account_type) EXCEPT !.ok = FALSE]
       ELSE /\ categories' = [categories EXCEPT ![category_id] =
                   [name |-> name,
                    type |-> IF account_type # None THEN account_type ELSE "savings",
                    color |-> color]]
            /\ last' = CategoryCall("update_category", category_id, name, color,
                                    account_type)

update_category(category_id, name, color, account_type) ==
    /\ _get_connection
    /\ UNCHANGED <<transactions, clock>>
    /\ IF category_id \notin DOMAIN categories
       THEN \* no row matched: rowcount = 0
            /\ UNCHANGED categories
            /\ last' = [CategoryCall("update_category", category_id, name, color,
                                     account_type) EXCEPT !.ok = FALSE]
       ELSE IF \/ NameTaken(categories, name, category_id)
               \/ (account_type # None /\ account_type \notin AccountTypes)
       THEN \* sqlite3.IntegrityError (UNIQUE or CHECK), caught
            /\ UNCHANGED categories
            /\ last' = [CategoryCall("update_category", category_id, name, color,
                                     account_type) EXCEPT !.ok = FALSE]
       ELSE \* "if account_type:" also sets the type
            /\ categories' = [categories EXCEPT ![category_id] =
                   [name |-> name,
                    type |-> IF account_type # None THEN account_type ELSE @.type,
                    color |-> color]]
            /\ last' = CategoryCall("update_category", category_id, name, color,
                                    account_type)

delete_category_keep_rows(category_id, delete_transactions) ==
    /\ _get_connection
    /\ UNCHANGED clock
    /\ transactions' = [i \in DOMAIN transactions |->
            IF transactions[i].category_id = category_id
            THEN [transactions[i] EXCEPT !.category_id = NULL]
            ELSE transactions[i]]
    /\ categories' = Without(categories, {category_id})
    /\ last' = Returned(Call("delete_category", category_id, 0, delete_transactions, {}),
                        category_id \in DOMAIN categories, 0)

delete_category(category_id, delete_transactions) ==
    /\ _get_connection
    /\ UNCHANGED clock
    /\ transactions' =
         IF delete_transactions
         THEN Without(transactions,
                      {i \in DOMAIN transactions :
                           transactions[i].category_id = category_id})
         ELSE [i \in DOMAIN transactions |->
                  IF transactions[i].category_id = category_id
                  THEN [transactions[i] EXCEPT !.category_id = NULL]
                  ELSE transactions[i]]
    /\ categories' = Without(categories, {category_id})
    /\ last' = Returned(Call("delete_category", category_id, 0, delete_transactions, {}),
                        category_id \in DOMAIN categories, 0)

merge_categories_no_delete(source_id, target_id) ==
    /\ _get_connection
    /\ UNCHANGED <<clock, categories>>
    /\ transactions' = [i \in DOMAIN transactions |->
            IF transactions[i].category_id = source_id
            THEN [transactions[i] EXCEPT !.category_id = target_id]
            ELSE transactions[i]]
    /\ last' = Returned(Call("merge_categories", source_id, target_id, FALSE, {}), TRUE, 0)

merge_categories(source_id, target_id) ==
    /\ _get_connection
    /\ UNCHANGED clock
    /\ transactions' = [i \in DOMAIN transactions |->
            IF transactions[i].category_id = source_id
            THEN [transactions[i] EXCEPT !.category_id = target_id]
            ELSE transactions[i]]
    /\ categories' = Without(categories, {source_id})
    /\ last' = Returned(Call("merge_categories", source_id, target_id, FALSE, {}), TRUE, 0)

-----------------------------------------------------------------------------
(* Opening the store *)

default_categories ==
    <<[name |-> "Checking Account", color |-> "#4CAF50", type |-> "checking"],
      [name |-> "Savings Account A", color |-> "#2196F3", type |-> "savings"],
      [name |-> "Savings Account B", color |-> "#009688", type |-> "savings"]>>

\* for name, color, acc_type in default_categories: INSERT INTO categories
RECURSIVE InsertCategories(_, _)
InsertCategories(cat, rows) ==
    IF rows = <<>> THEN cat
    ELSE InsertCategories(cat @@ (NextRowId(cat) :> Head(rows)), Tail(rows))

\* The defaults whose name is not stored are inserted, whatever the table
\* holds.
insert_missing_default_categories(cat) ==
    InsertCategories(cat,
        SelectSeq(default_categories, LAMBDA row : ~NameTaken(cat, row.name, NULL)))

\* _insert_default_categories(): nothing when SELECT COUNT(*) FROM categories
\* is above zero.
_insert_default_categories(cat) ==
    IF Cardinality(DOMAIN cat) > 0 THEN cat
    ELSE InsertCategories(cat, default_categories)

\* DatabaseManager(db_path) over the file of the store: the constructor
\* connects, creates the tables that do not exist and inserts the defaults.
__init__ ==
    /\ UNCHANGED <<transactions, clock>>
    /\ connection' = NextRowId(handles)
    /\ handles' = handles @@ (NextRowId(handles) :> "open")
    /\ categories' = _insert_default_categories(categories)
    /\ last' = Returned(Call("__init__", 0, 0, FALSE, {}), TRUE,
                        Cardinality(DOMAIN categories))

-----------------------------------------------------------------------------
(* The accounts view *)

\* AccountsView._save_account: name is the text of the name field ("" when
\* empty), editing_id the account being edited or NULL for a new account.
_save_account(editing_id, name, color) ==
    IF name = ""
    THEN \* "Please enter a name"
         /\ UNCHANGED <<categories, transactions, clock, connection, handles>>
         /\ last' = [CategoryCall("_save_account", editing_id, name, color, None)
                         EXCEPT !.ok = FALSE]
    ELSE IF editing_id # NULL
    THEN update_category(editing_id, name, color, None)
    ELSE add_category(name, color, "savings")

-----------------------------------------------------------------------------
(* Transactions *)

\* What a call left in table transactions and what it gave back: a return
\* value (truthy or not, the integer if any) or the exception it raised.
Outcome(tx, ok, val, exc) == [tx |-> tx, ok |-> ok, val |-> val, exc |-> exc]

Result(call, r) ==
    IF r.exc = "" THEN Returned(call, r.ok, r.val) ELSE Raised(call, r.exc)

NewRow(date, description, amount, transaction_type, category_id, notes, now) ==
    [date |-> date, description |-> description, amount |-> amount,
     transaction_type |-> transaction_type, category_id |-> category_id,
     notes |-> notes, created_at |-> now, updated_at |-> now]

\* The rows of table transactions after one INSERT.
Inserted(tx, row) == tx @@ (NextRowId(tx) :> row)

InsertRow(tx, date, description, amount, transaction_type, category_id, notes, now) ==
    IF transaction_type \notin TransactionTypes
    THEN \* CHECK(transaction_type IN ...): sqlite3.IntegrityError, not caught
         Outcome(tx, FALSE, 0, "IntegrityError")
    ELSE Outcome(Inserted(tx, NewRow(date, description, amount,
                                     transaction_type, category_id, notes, now)),
                 TRUE, NextRowId(tx), "")

add_transaction(date, description, amount, transaction_type, category_id, notes) ==
    /\ _get_connection
    /\ UNCHANGED <<categories, clock>>
    /\ LET r == InsertRow(transactions, date, description, amount,
                          transaction_type, category_id, notes, clock)
       IN /\ transactions' = r.tx
          /\ last' = Result(Call("add_transaction", 0, 0, FALSE, {}), r)

allowed_fields ==
    {"date", "description", "amount", "transaction_type", "category_id", "notes"}

\* updates = {k: v for k, v in kwargs.items() if k in allowed_fields}
UpdatesUnfiltered(kwargs) == kwargs

Updates(kwargs) == [k \in DOMAIN kwargs \cap allowed_fields |-> kwargs[k]]

\* UPDATE transactions SET k = ?, ..., updated_at = ? WHERE id = ?, on one row.
SetFields(row, updates, now) ==
    [f \in DOMAIN row |->
        IF f \in DOMAIN updates THEN updates[f]
        ELSE IF f = "updated_at" THEN now
        ELSE row[f]]

UpdateCall(transaction_id, kwargs) ==
    Call("update_transaction", transaction_id, 0, FALSE, DOMAIN kwargs)

UpdateRow(tx, transaction_id, kwargs, now) ==
    IF DOMAIN kwargs = {} \/ DOMAIN Updates(kwargs) = {}
    THEN \* if not kwargs / if not updates: return False
         Outcome(tx, FALSE, 0, "")
    ELSE IF transaction_id \notin DOMAIN tx
    THEN \* no row matched: rowcount = 0
         Outcome(tx, FALSE, 0, "")
    ELSE IF "transaction_type" \in DOMAIN Updates(kwargs)
            /\ kwargs["transaction_type"] \notin TransactionTypes
    THEN \* CHECK constraint: sqlite3.IntegrityError, not caught
         Outcome(tx, FALSE, 0, "IntegrityError")
    ELSE Outcome([tx EXCEPT ![transaction_id] = SetFields(@, Updates(kwargs), now)],
                 TRUE, 0, "")

update_transaction_no_where(transaction_id, kwargs) ==
    /\ _get_connection
    /\ UNCHANGED <<categories, clock>>
    /\ IF DOMAIN kwargs = {} \/ DOMAIN Updates(kwargs) = {}
       THEN /\ UNCHANGED transactions
            /\ last' = Returned(UpdateCall(transaction_id, kwargs), FALSE, 0)
       ELSE /\ transactions' = [i \in DOMAIN transactions |->
                   SetFields(transactions[i], Updates(kwargs), clock)]
            /\ last' = Returned(UpdateCall(transaction_id, kwargs),
                                DOMAIN transactions # {}, 0)

update_transaction(transaction_id, kwargs) ==
    /\ _get_connection
    /\ UNCHANGED <<categories, clock>>
    /\ LET r == UpdateRow(transactions, transaction_id, kwargs, clock)
       IN /\ transactions' = r.tx
          /\ last' = [Result(UpdateCall(transaction_id, kwargs), r)
                         EXCEPT !.data = kwargs]

DeleteRow(tx, transaction_id) ==
    Outcome(Without(tx, {transaction_id}), transaction_id \in DOMAIN tx, 0, "")

delete_transaction(transaction_id) ==
    /\ _get_connection
    /\ UNCHANGED <<categories, clock>>
    /\ LET r == DeleteRow(transactions, transaction_id)
       IN /\ transactions' = r.tx
          /\ last' = Result(Call("delete_transaction", transaction_id, 0, FALSE, {}), r)

\* ORDER BY t.date DESC, t.id DESC
Precedes(tx, i, j) ==
    tx[i].date > tx[j].date \/ (tx[i].date = tx[j].date /\ i >= j)

RECURSIVE Ordered(_, _)
Ordered(tx, ids) ==
    IF ids = {} THEN <<>>
    ELSE LET first == CHOOSE i \in ids : \A j \in ids : Precedes(tx, i, j)
         IN <<first>> \o Ordered(tx, ids \ {first})

\* SELECT t.*, c.name as category_name, c.color as category_color
\* FROM transactions t LEFT JOIN categories c ON t.category_id = c.id
JoinedRow(cat, tx, i) ==
    LET joined == tx[i].category_id # NULL /\ tx[i].category_id \in DOMAIN cat
    IN [k \in DOMAIN tx[i] \cup {"id", "category_name", "category_color"} |->
          CASE k = "id" -> i
            [] k = "category_name" ->
                 IF joined THEN cat[tx[i].category_id].name ELSE None
            [] k = "category_color" ->
                 IF joined THEN cat[tx[i].category_id].color ELSE None
            [] OTHER -> tx[i][k]]

\* get_all_transactions() with no limit: a list of dicts.
get_all_transactions(cat, tx) ==
    LET order == Ordered(tx, DOMAIN tx)
    IN [n \in 1..Len(order) |-> JoinedRow(cat, tx, order[n])]

\* "if limit:" is taken for an int that is neither None (<<>>) nor 0 (<<0>>).
LimitGiven(limit) == limit # <<>> /\ limit[1] # 0

\* LIMIT n OFFSET m over the ordered rows, for n >= 0 and m >= 0.
LimitOffset(rows, n, m) ==
    SubSeq(rows, m + 1, IF m + n <= Len(rows) THEN m + n ELSE Len(rows))

\* get_all_transactions(limit, offset)
get_all_transactions_limit(cat, tx, limit, offset) ==
    IF LimitGiven(limit)
    THEN LimitOffset(get_all_transactions(cat, tx), limit[1], offset)
    ELSE get_all_transactions(cat, tx)

\* WHERE t.date BETWEEN ? AND ?
Between(tx, start_date, end_date) ==
    {i \in DOMAIN tx : start_date <= tx[i].date /\ tx[i].date <= end_date}

\* ORDER BY t.date DESC: the orders in which the rows ids may come out, rows
\* of the same date in any order.
DateDescOrders(tx, ids) ==
    {order \in [1..Cardinality(ids) -> ids] :
        /\ \A m, n \in 1..Cardinality(ids) : m # n => order[m] # order[n]
        /\ \A m, n \in 1..Cardinality(ids) :
             m < n => tx[order[m]].date >= tx[order[n]].date}

\* get_transactions_by_period(start_date, end_date): the lists it may return.
get_transactions_by_period(cat, tx, start_date, end_date) ==
    {[n \in 1..Len(order) |-> JoinedRow(cat, tx, order[n])] :
        order \in DateDescOrders(tx, Between(tx, start_date, end_date))}

-----------------------------------------------------------------------------
(* Export *)

\* The decimal digits of a natural number, most significant first.
RECURSIVE Digits(_)
Digits(n) == IF n < 10 THEN <<n>> ELSE Digits(n \div 10) \o <<n % 10>>

RECURSIVE FromDigits(_)
FromDigits(ds) ==
    IF Len(ds) = 1 THEN ds[1]
    ELSE 10 * FromDigits(SubSeq(ds, 1, Len(ds) - 1)) + ds[Len(ds)]

\* json.dump writes the float of column amount (REAL) by float.__repr__:
\* a sign, the digits of the integer part and ".0" for an integer value.
JsonNumberUnsigned(x) ==
    [negative |-> FALSE, digits |-> Digits(IF x < 0 THEN 0 - x ELSE x)]

JsonNumber(x) ==
    [negative |-> x < 0, digits |-> Digits(IF x < 0 THEN 0 - x ELSE x)]

\* json.load reads the number back.
ParseJsonNumber(text) ==
    IF text.negative THEN 0 - FromDigits(text.digits) ELSE FromDigits(text.digits)

\* One dict of the list, as written to the file.
JsonEntry(row) == [row EXCEPT !.amount = JsonNumber(row.amount)]

\* SELECT * FROM categories ORDER BY name: the rows (their order is not kept).
get_all_categories(cat) ==
    {[id |-> i, name |-> cat[i].name, type |-> cat[i].type, color |-> cat[i].color] :
        i \in DOMAIN cat}

\* The data written to the file.
ExportData(cat, tx, now) ==
    LET rows == get_all_transactions(cat, tx)
    IN [categories |-> get_all_categories(cat),
        transactions |-> [n \in 1..Len(rows) |-> JsonEntry(rows[n])],
        exported_at |-> now]

\* export_to_json(filepath): writable is whether open(filepath, "w") succeeds;
\* an exception is caught and False returned.
export_to_json(writable) ==
    /\ _get_connection
    /\ UNCHANGED <<categories, transactions, clock>>
    /\ last' = IF writable
               THEN [Returned(Call("export_to_json", 0, 0, writable, {}), TRUE, 0)
                         EXCEPT !.data = ExportData(categories, transactions, clock)]
               ELSE Returned(Call("export_to_json", 0, 0, writable, {}), FALSE, 0)

-----------------------------------------------------------------------------
(* The transaction view *)

\* dict.get(k, default)
Get(d, k, default) == IF k \in DOMAIN d THEN d[k] ELSE default

\* dict.copy() followed by the assignments d[k] = v of the dict changes.
Assigned(d, changes) ==
    [k \in DOMAIN d \cup DOMAIN changes |->
        IF k \in DOMAIN changes THEN changes[k] ELSE d[k]]

\* str.startswith(prefix) and the slice after the prefix.
startswith(desc, prefix) == desc[1] = prefix
AfterPrefix(desc) == desc[2]

\* The parameters of DatabaseManager.add_transaction and those with no
\* default: a call with another keyword, or without a required one, raises
\* TypeError before the body runs.
add_transaction_params ==
    {"date", "description", "amount", "transaction_type", "category_id", "notes"}

add_transaction_required == {"date", "description", "amount", "transaction_type"}

\* db.add_transaction(**kwargs)
CallAddTransaction(tx, kwargs, now) ==
    IF \/ ~(DOMAIN kwargs \subseteq add_transaction_params)
       \/ ~(add_transaction_required \subseteq DOMAIN kwargs)
    THEN Outcome(tx, FALSE, 0, "TypeError")
    ELSE InsertRow(tx, kwargs["date"], kwargs["description"], kwargs["amount"],
                   kwargs["transaction_type"], Get(kwargs, "category_id", NULL),
                   Get(kwargs, "notes", None), now)

\* The second of two store calls made one after the other, each committed on
\* its own: not made when the first raised.
Then(r1, r2) == IF r1.exc # "" THEN r1 ELSE r2

SaveOutcome(tx, data, now) ==
    IF Get(data, "id", NULL) # NULL
    THEN IF data["transaction_type"] = "transfer" /\ Get(data, "other_id", NULL) # NULL
         THEN LET first == UpdateRow(tx, data["id"],
                      [date |-> data["date"],
                       description |-> <<"Virement vers ", Get(data, "dest_name", "compte")>>,
                       amount |-> data["amount"],
                       subcategory_id |-> Get(data, "source_id", NULL),
                       notes |-> Get(data, "notes", None)], now)
                  second == UpdateRow(first.tx, data["other_id"],
                      [date |-> data["date"],
                       description |-> <<"Virement de ", Get(data, "source_name", "compte")>>,
                       amount |-> data["amount"],
                       subcategory_id |-> Get(data, "dest_id", NULL),
                       notes |-> Get(data, "notes", None)], now)
              IN Then(first, second)
         ELSE UpdateRow(tx, data["id"],
                  [date |-> data["date"],
                   description |-> data["description"],
                   amount |-> data["amount"],
                   transaction_type |-> data["transaction_type"],
                   category_id |-> Get(data, "category_id", NULL),
                   subcategory_id |-> Get(data, "subcategory_id", NULL),
                   notes |-> Get(data, "notes", None)], now)
    ELSE IF data["transaction_type"] = "transfer"
    THEN LET first == CallAddTransaction(tx,
                 [date |-> data["date"],
                  description |-> <<"Virement vers ", Get(data, "dest_name", "compte")>>,
                  amount |-> data["amount"],
                  transaction_type |-> "expense",
                  category_id |-> NULL,
                  subcategory_id |-> Get(data, "source_id", NULL),
                  notes |-> Get(data, "notes", None)], now)
             second == CallAddTransaction(first.tx,
                 [date |-> data["date"],
                  description |-> <<"Virement de ", Get(data, "source_name", "compte")>>,
                  amount |-> data["amount"],
                  transaction_type |-> "income",
                  category_id |-> NULL,
                  subcategory_id |-> Get(data, "dest_id", NULL),
                  notes |-> Get(data, "notes", None)], now)
         IN Then(first, second)
    ELSE CallAddTransaction(tx,
             [date |-> data["date"],
              description |-> data["description"],
              amount |-> data["amount"],
              transaction_type |-> data["transaction_type"],
              category_id |-> Get(data, "category_id", NULL),
              subcategory_id |-> Get(data, "subcategory_id", NULL),
              notes |-> Get(data, "notes", None)], now)

\* What the view's last handler was given and how it ended.
Handled(op, id, other, data, r) ==
    [Result(Call(op, id, other, FALSE, DOMAIN data), r) EXCEPT !.data = data]

_save_transaction(data) ==
    /\ UNCHANGED <<categories, clock>>
    /\ LET r == SaveOutcome(transactions, data, clock)
       IN /\ transactions' = r.tx
          /\ IF r.exc = "TypeError"
             THEN \* raised by the call itself, before the body of the method
                  UNCHANGED <<connection, handles>>
             ELSE _get_connection
          /\ last' = Handled("_save_transaction", Get(data, "id", NULL),
                             Get(data, "other_id", NULL), data,
                             Outcome(r.tx, r.exc = "", 0, r.exc))

\* _confirm_delete(transaction_id), "Supprimer" clicked.
_confirm_delete(transaction_id) ==
    /\ _get_connection
    /\ UNCHANGED <<categories, clock>>
    /\ transactions' = DeleteRow(transactions, transaction_id).tx
    /\ last' = Handled("_confirm_delete", transaction_id, 0, <<>>,
                       Outcome(transactions', TRUE, 0, ""))

\* for tid in ids: db.delete_transaction(tid)
RECURSIVE DeleteEach(_, _)
DeleteEach(tx, ids) ==
    IF ids = <<>> THEN tx
    ELSE DeleteEach(DeleteRow(tx, Head(ids)).tx, Tail(ids))

confirm_delete_group_first_only(ids) ==
    /\ _get_connection
    /\ UNCHANGED <<categories, clock>>
    /\ transactions' = DeleteEach(transactions, <<ids[1]>>)
    /\ last' = Handled("_confirm_delete_group", ids[1], ids[2], <<>>,
                       Outcome(transactions', TRUE, 0, ""))

\* _confirm_delete_group(ids), "Supprimer" clicked; ids are the two ids of a
\* group.
_confirm_delete_group(ids) ==
    /\ _get_connection
    /\ UNCHANGED <<categories, clock>>
    /\ transactions' = DeleteEach(transactions, ids)
    /\ last' = Handled("_confirm_delete_group", ids[1], ids[2], <<>>,
                       Outcome(transactions', TRUE, 0, ""))

\* The test of lines 365-367: same amount, same date, different types.
SameAmountDateOtherType(t1, t2) ==
    /\ t1["amount"] = t2["amount"]
    /\ t1["date"] = t2["date"]
    /\ t1["transaction_type"] # t2["transaction_type"]

\* "Determine which is which": the expense leg comes first ...
ExpenseThenIncome(t1, t2) ==
    /\ t1["transaction_type"] = "expense"
    /\ startswith(t1["description"], "Virement vers ")
    /\ t2["transaction_type"] = "income"
    /\ startswith(t2["description"], "Virement de ")

\* ... or the income leg does.
IncomeThenExpense(t1, t2) ==
    /\ t1["transaction_type"] = "income"
    /\ startswith(t1["description"], "Virement de ")
    /\ t2["transaction_type"] = "expense"
    /\ startswith(t2["description"], "Virement vers ")

is_transfer_candidate(t1) ==
    \/ startswith(t1["description"], "Virement vers ")
    \/ startswith(t1["description"], "Virement de ")

\* combined, for the legs t1 (first in the list) and t2.
Combined(t1, t2, id_expense, id_income, source, dest, source_id, dest_id) ==
    Assigned(t1,
        [ids |-> <<t1["id"], t2["id"]>>,
         id |-> id_expense,
         other_id |-> id_income,
         description |-> <<"Transfert de ", source, " vers ", dest>>,
         transaction_type |-> "transfer_group",
         subcategory_name |-> "Virement",
         subcategory_id |-> NULL,
         category_color |-> "BLUE_GREY_100",
         source_id |-> source_id,
         dest_id |-> dest_id])

\* The while loop of _group_transactions from index i (1-based) on, grouped
\* being the list built so far.  A dict subscript with a key the dict does
\* not have raises KeyError out of the function.
RECURSIVE GroupFrom(_, _, _)
GroupFrom(rows, i, grouped) ==
    IF ~(i <= Len(rows)) THEN Outcome(grouped, TRUE, 0, "")
    ELSE LET t1 == rows[i]
             standalone == GroupFrom(rows, i + 1, Append(grouped, t1))
         IN IF is_transfer_candidate(t1) /\ i + 1 <= Len(rows)
            THEN LET t2 == rows[i + 1]
                 IN IF SameAmountDateOtherType(t1, t2)
                    THEN IF ExpenseThenIncome(t1, t2)
                         THEN IF "subcategory_id" \notin DOMAIN t1 \cap DOMAIN t2
                              THEN Outcome(<<>>, FALSE, 0, "KeyError")
                              ELSE GroupFrom(rows, i + 2, Append(grouped,
                                     Combined(t1, t2, t1["id"], t2["id"],
                                              AfterPrefix(t2["description"]),
                                              AfterPrefix(t1["description"]),
                                              t1["subcategory_id"],
                                              t2["subcategory_id"])))
                         ELSE IF IncomeThenExpense(t1, t2)
                         THEN IF "subcategory_id" \notin DOMAIN t1 \cap DOMAIN t2
                              THEN Outcome(<<>>, FALSE, 0, "KeyError")
                              ELSE GroupFrom(rows, i + 2, Append(grouped,
                                     Combined(t1, t2, t2["id"], t1["id"],
                                              AfterPrefix(t1["description"]),
                                              AfterPrefix(t2["description"]),
                                              t2["subcategory_id"],
                                              t1["subcategory_id"])))
                         ELSE standalone
                    ELSE standalone
            ELSE standalone

\* _group_transactions(transactions): .tx is the list returned.
_group_transactions(rows) == GroupFrom(rows, 1, <<>>)

\* One row of the table built by _generate_rows: the handlers bound to its
\* edit and delete buttons and what they are called with.
DisplayRow(t) ==
    IF Get(t, "transaction_type", None) = "transfer_group"
    THEN [is_group |-> TRUE, edit_action |-> "_edit_transfer_group",
          delete_action |-> "_confirm_delete_group", ids |-> t["ids"], t |-> t]
    ELSE [is_group |-> FALSE, edit_action |-> "_edit_transaction",
          delete_action |-> "_confirm_delete", ids |-> <<t["id"]>>, t |-> t]

\* for t in display_transactions: a standard row reads t["subcategory_name"],
\* a KeyError when the dict has no such key.
RECURSIVE DisplayFrom(_, _, _)
DisplayFrom(display_transactions, i, rows) ==
    IF ~(i <= Len(display_transactions)) THEN Outcome(rows, TRUE, 0, "")
    ELSE LET t == display_transactions[i]
         IN IF Get(t, "transaction_type", None) # "transfer_group"
               /\ "subcategory_name" \notin DOMAIN t
            THEN Outcome(<<>>, FALSE, 0, "KeyError")
            ELSE DisplayFrom(display_transactions, i + 1, Append(rows, DisplayRow(t)))

\* _generate_rows() with self.transactions = transactions: .tx is the list
\* of rows returned.
_generate_rows(transactions_list) ==
    LET grouped == _group_transactions(transactions_list)
    IN IF grouped.exc # "" THEN grouped
       ELSE DisplayFrom(grouped.tx, 1, <<>>)

\* The two rows at positions n and n + 1 of the list are what the pairing
\* pass takes for the legs of one transfer (match = True at line 397).
Matched(rows, n) ==
    /\ n + 1 <= Len(rows)
    /\ is_transfer_candidate(rows[n])
    /\ SameAmountDateOtherType(rows[n], rows[n + 1])
    /\ (ExpenseThenIncome(rows[n], rows[n + 1])
          \/ IncomeThenExpense(rows[n], rows[n + 1]))

-----------------------------------------------------------------------------
(* The dashboard *)

\* desc = (t["description"] or "Autre").strip()
DashboardDescription(t) ==
    IF t["description"] = <<"", "">> THEN <<"", "Autre">> ELSE t["description"]

\* "Filter out transfers"
IsDashboardTransfer(desc) ==
    startswith(desc, "Transfer to ") \/ startswith(desc, "Transfer from ")

RECURSIVE SumAmountsAt(_, _)
SumAmountsAt(txs, positions) ==
    IF positions = {} THEN 0
    ELSE LET n == CHOOSE x \in positions : TRUE
         IN txs[n]["amount"] + SumAmountsAt(txs, positions \ {n})

\* self.category_expenses / self.category_incomes after the loop over txs:
\* the dict from description to the sum of the amounts of its rows.
CategoryTotals(txs, type) ==
    LET kept == {n \in 1..Len(txs) :
                    /\ ~IsDashboardTransfer(DashboardDescription(txs[n]))
                    /\ txs[n]["transaction_type"] = type}
    IN [desc \in {DashboardDescription(txs[n]) : n \in kept} |->
           SumAmountsAt(txs, {n \in kept : DashboardDescription(txs[n]) = desc})]

\* The part of DashboardView._load_data that builds the breakdown of the
\* month of now = <<year, month>>.
_load_data(now) ==
    LET start_date == FirstOfMonth(now[1], now[2])
        end_date == IF now[2] = 12 THEN FirstOfMonth(now[1] + 1, 1)
                    ELSE FirstOfMonth(now[1], now[2] + 1)
    IN \E txs \in get_transactions_by_period(categories, transactions,
                                            start_date, end_date) :
          /\ UNCHANGED <<categories, transactions, clock>>
          /\ _get_connection
          /\ last' = [Returned(Call("_load_data", start_date, end_date, FALSE, {}),
                               TRUE, 0)
                          EXCEPT !.data =
                              [category_expenses |-> CategoryTotals(txs, "expense"),
                               category_incomes |-> CategoryTotals(txs, "income")]]

-----------------------------------------------------------------------------
(* The transaction form and the CSV import *)

\* The text of a field or of a CSV cell is <<v>> when float() (for an
\* amount) or strptime() (for a date) reads the value v from it, and <<>>
\* when it is empty or raises ValueError.

\* TransactionModal._validate_form: a description and an amount above zero.
_validate_form(description, amount_field) ==
    /\ description # <<"", "">>
    /\ amount_field # <<>>
    /\ ~(amount_field[1] <= 0)

abs(x) == IF x < 0 THEN 0 - x ELSE x

\* t_type = "expense"; if amount > 0: t_type = "income"; else: amount = abs(amount)
ParsedAmount(amount) == IF amount > 0 THEN amount ELSE abs(amount)

ParsedType(amount) == IF amount > 0 THEN "income" ELSE "expense"

\* The rows of the file whose amount float() reads, as parsed_transactions.
RECURSIVE _prepare_transactions(_)
_prepare_transactions(rows) ==
    IF rows = <<>> THEN <<>>
    ELSE IF Head(rows).amount = <<>>
    THEN _prepare_transactions(Tail(rows))
    ELSE <<[date |-> Head(rows).date, description |-> Head(rows).description,
            amount |-> ParsedAmount(Head(rows).amount[1]),
            type |-> ParsedType(Head(rows).amount[1])]>>
         \o _prepare_transactions(Tail(rows))

\* for t in self.parsed_transactions: a row whose date no format reads is
\* skipped, an exception of db.add_transaction is caught and the loop goes on.
RECURSIVE ImportEach(_, _, _, _)
ImportEach(tx, parsed, account_id, now) ==
    IF parsed = <<>> THEN tx
    ELSE LET t == Head(parsed)
             after == IF t.date = <<>> THEN tx
                      ELSE CallAddTransaction(tx,
                               [date |-> t.date[1], description |-> t.description,
                                amount |-> t.amount, transaction_type |-> t.type,
                                category_id |-> account_id], now).tx
         IN ImportEach(after, Tail(parsed), account_id, now)

\* _import_data, "Confirm Import" clicked: new_account when the dropdown is
\* on "+ Create New Account", else selected_account_id is the account chosen.
_import_data(new_account, name, selected_account_id, rows) ==
    /\ UNCHANGED clock
    /\ IF new_account \/ \E n \in 1..Len(rows) :
                            rows[n].amount # <<>> /\ rows[n].date # <<>>
       THEN _get_connection
       ELSE \* neither db.add_category nor db.add_transaction is called
            UNCHANGED <<connection, handles>>
    /\ IF new_account /\ NameTaken(categories, name, NULL)
       THEN \* db.add_category gave -1: "Error creating account"
            /\ UNCHANGED <<categories, transactions>>
            /\ last' = [Returned(Call("_import_data", 0, 0, new_account, {}), FALSE, 0)
                            EXCEPT !.data = rows]
       ELSE LET new_id == NextRowId(categories)
                account_id == IF new_account THEN new_id ELSE selected_account_id
            IN /\ categories' =
                      IF new_account
                      THEN categories @@
                           (new_id :> [name |-> name, type |-> "savings",
                                       color |-> "#9E9E9E"])
                      ELSE categories
               /\ transactions' = ImportEach(transactions, _prepare_transactions(rows),
                                             account_id, clock)
               /\ last' = [Returned(Call("_import_data", account_id, 0, new_account, {}),
                                    TRUE,
                                    Cardinality(DOMAIN transactions')
                                        - Cardinality(DOMAIN transactions))
                               EXCEPT !.data = rows]

\* TransactionModal._on_save_click: on_save is called with the amount of the
\* form only when the form validates.
_on_save_click(data, description, amount_field) ==
    IF _validate_form(description, amount_field)
    THEN _save_transaction([data EXCEPT !.description = description,
                                        !.amount = amount_field[1]])
    ELSE /\ UNCHANGED <<categories, transactions, clock, connection, handles>>
         /\ last' = [Returned(Call("_on_save_click", Get(data, "id", NULL), 0,
                                   FALSE, DOMAIN data), FALSE, 0)
                         EXCEPT !.data = <<description, amount_field>>]

-----------------------------------------------------------------------------
(* Spec: the ledger.  Transactions of every type and two amounts are posted *)
(* to the default checking account (1), a default savings account (2) or no *)
(* account, edited and deleted, while the two accounts are deleted in both  *)
(* modes.                                                                   *)

LedgerDate == 20230101
LedgerDescription == <<"", "Salary">>
LedgerAmounts == {1, 2}
LedgerAccounts == {1, 2}
LedgerTxIds == 1..(MaxTx + 1)

LedgerKwargs ==
    {[amount |-> 2], [transaction_type |-> "expense", category_id |-> 2],
     [subcategory_id |-> 1]}

Init ==
    /\ categories = DefaultCategories
    /\ transactions = <<>>
    /\ clock = 0
    /\ last = Returned(Call("__init__", 0, 0, FALSE, {}), TRUE, 0)
    /\ connection = 1
    /\ handles = (1 :> "open")

DeleteCategory ==
    \E id \in LedgerAccounts, del \in BOOLEAN : delete_category(id, del)

AddTransaction ==
    \E amount \in LedgerAmounts, type \in TransactionTypes \cup {"refund"},
       cat \in LedgerAccounts \cup {NULL} :
        /\ NextRowId(transactions) <= MaxTx
        /\ add_transaction(LedgerDate, LedgerDescription, amount, type, cat, None)

UpdateTransaction ==
    \E id \in LedgerTxIds, kwargs \in LedgerKwargs : update_transaction(id, kwargs)

DeleteTransaction ==
    \E id \in LedgerTxIds : delete_transaction(id)

Next ==
    \/ DeleteCategory
    \/ AddTransaction
    \/ UpdateTransaction
    \/ DeleteTransaction

Spec == Init /\ [][Next]_vars

-----------------------------------------------------------------------------
(* SpecAccounts: deleting and merging accounts.  Accounts are added,        *)
(* deleted in both modes and merged into account 1 or 2 (which may be the   *)
(* source itself, or deleted), over transactions of one amount posted to a  *)
(* default account id or to none.                                           *)

AcctNames == {"Checking Account", "Livret"}
AcctColor == "#9E9E9E"
AcctIds == 1..MaxCatId
AcctTargets == {1, 2}
AcctPosted == {NULL, 1, 2, 3}
AcctTxIds == 1..MaxAcctTx

AcctAddCategory ==
    \E name \in AcctNames, type \in AccountTypes \cup {"current"} :
        /\ NextRowId(categories) <= MaxCatId
        /\ add_category(name, AcctColor, type)

AcctDeleteCategory ==
    \E id \in AcctIds, del \in BOOLEAN : delete_category(id, del)

AcctMergeCategories ==
    \E s \in AcctIds, t \in AcctTargets : merge_categories(s, t)

AcctAddTransaction ==
    \E cat \in AcctPosted :
        /\ NextRowId(transactions) <= MaxAcctTx
        /\ add_transaction(LedgerDate, LedgerDescription, 1, "income", cat, None)

AcctDeleteTransaction ==
    \E id \in AcctTxIds : delete_transaction(id)

NextAccounts ==
    \/ AcctAddCategory
    \/ AcctDeleteCategory
    \/ AcctMergeCategories
    \/ AcctAddTransaction
    \/ AcctDeleteTransaction

SpecAccounts == Init /\ [][NextAccounts]_vars

-----------------------------------------------------------------------------
(* SpecView: the handlers of the transaction view over a store filled by    *)
(* the import dialog, whose rows are the two legs of a transfer from the    *)
(* checking account (1) to a savings account (2) and a salary.  The         *)
(* handlers of a transfer group are entered with the ids and the dict that  *)
(* lines 399-401 and 418-428 attach to the two rows the pairing pass takes  *)
(* for the legs of one transfer.                                            *)

ViewEditDate == 20230201

ViewImported ==
    {[description |-> <<"Virement vers ", "Savings Account A">>,
      transaction_type |-> "expense", category_id |-> 1],
     [description |-> <<"Virement de ", "Checking Account">>,
      transaction_type |-> "income", category_id |-> 2],
     [description |-> <<"", "Salary">>,
      transaction_type |-> "income", category_id |-> 1]}

\* The dict of a new transfer, of a new income.
NewTransferData ==
    {[transaction_type |-> "transfer", date |-> LedgerDate, amount |-> 1,
      source_id |-> 1, dest_id |-> 2, source_name |-> "Checking Account",
      dest_name |-> "Savings Account A", notes |-> None]}

NewStandardData ==
    {[transaction_type |-> "income", date |-> LedgerDate,
      description |-> <<"", "Salary">>, amount |-> 1, category_id |-> 1,
      notes |-> None]}

\* The source and destination accounts chosen when a transfer is edited.
ViewEditAccounts == {<<1, 2>>, <<3, 2>>}

\* The dict of an edited transfer whose legs are rows n and n + 1 of the list.
EditTransferData(rows, n, source_id, dest_id) ==
    LET expense_first == ExpenseThenIncome(rows[n], rows[n + 1])
    IN [id |-> IF expense_first THEN rows[n]["id"] ELSE rows[n + 1]["id"],
        other_id |-> IF expense_first THEN rows[n + 1]["id"] ELSE rows[n]["id"],
        date |-> ViewEditDate, amount |-> 2, transaction_type |-> "transfer",
        source_id |-> source_id, dest_id |-> dest_id,
        source_name |-> categories[source_id].name,
        dest_name |-> categories[dest_id].name, notes |-> None]

\* The dict of an edited income.
EditStandardData(id) ==
    [id |-> id, transaction_type |-> "income", date |-> LedgerDate,
     description |-> <<"", "Salary">>, amount |-> 2, category_id |-> 1,
     notes |-> None]

ViewAddTransaction ==
    \E row \in ViewImported :
        /\ NextRowId(transactions) <= MaxViewTx
        /\ add_transaction(LedgerDate, row.description, 1, row.transaction_type,
                           row.category_id, None)

SaveNewTransfer ==
    \E data \in NewTransferData :
        /\ NextRowId(transactions) + 1 <= MaxViewTx
        /\ _save_transaction(data)

SaveNewStandard ==
    \E data \in NewStandardData :
        /\ NextRowId(transactions) <= MaxViewTx
        /\ _save_transaction(data)

SaveEditTransfer ==
    \E n \in 1..MaxViewTx, accounts \in ViewEditAccounts :
        LET rows == get_all_transactions(categories, transactions)
        IN /\ Matched(rows, n)
           /\ _save_transaction(EditTransferData(rows, n, accounts[1], accounts[2]))

SaveEditStandard ==
    \E id \in DOMAIN transactions : _save_transaction(EditStandardData(id))

ConfirmDelete ==
    \E id \in DOMAIN transactions : _confirm_delete(id)

ConfirmDeleteGroup ==
    \E n \in 1..MaxViewTx :
        LET rows == get_all_transactions(categories, transactions)
        IN /\ Matched(rows, n)
           /\ _confirm_delete_group(<<rows[n]["id"], rows[n + 1]["id"]>>)

NextView ==
    \/ ViewAddTransaction
    \/ SaveNewTransfer
    \/ SaveNewStandard
    \/ SaveEditTransfer
    \/ SaveEditStandard
    \/ ConfirmDelete
    \/ ConfirmDeleteGroup

SpecView == Init /\ [][NextView]_vars

-----------------------------------------------------------------------------
(* SpecGroup: the pairing pass over every list of up to MaxGroupLen stored  *)
(* rows, each with or without a transfer prefix, of either type, and of a   *)
(* date and an amount that are equal to or different from its neighbour's.  *)

GroupDescriptions ==
    {<<"Virement vers ", "Savings Account A">>,
     <<"Virement de ", "Checking Account">>,
     <<"", "Salary">>}

\* <<date, amount>>
GroupStamps == {<<LedgerDate, 1>>, <<LedgerDate, 2>>, <<ViewEditDate, 1>>}

GroupRows ==
    {NewRow(stamp[1], description, stamp[2], type, 1, None, 0) :
        stamp \in GroupStamps, description \in GroupDescriptions,
        type \in {"income", "expense"}}

InitGroup ==
    /\ categories = DefaultCategories
    /\ transactions \in UNION {[1..n -> GroupRows] : n \in 0..MaxGroupLen}
    /\ clock = 0
    /\ last = Returned(Call("__init__", 0, 0, FALSE, {}), TRUE, 0)
    /\ connection = 1
    /\ handles = (1 :> "open")

\* display_transactions = self._group_transactions(self.transactions)
GroupTransactions ==
    /\ UNCHANGED <<connection, handles>>
    /\ UNCHANGED <<categories, transactions, clock>>
    /\ LET r == _group_transactions(get_all_transactions(categories, transactions))
           call == Call("_group_transactions", 0, 0, FALSE, {})
       IN last' = IF r.exc = "" THEN Returned(call, TRUE, r.tx)
                  ELSE Raised(call, r.exc)

\* content_column.controls = [table_header] + self._generate_rows()
GenerateRows ==
    /\ UNCHANGED <<connection, handles>>
    /\ UNCHANGED <<categories, transactions, clock>>
    /\ LET r == _generate_rows(get_all_transactions(categories, transactions))
           call == Call("_generate_rows", 0, 0, FALSE, {})
       IN last' = IF r.exc = "" THEN Returned(call, TRUE, r.tx)
                  ELSE Raised(call, r.exc)

NextGroup ==
    \/ GroupTransactions
    \/ GenerateRows

SpecGroup == InitGroup /\ [][NextGroup]_vars

-----------------------------------------------------------------------------
(* SpecUpdate: update_transaction with every combination of passed fields   *)
(* (none, allowed, unrecognized, both), on stored and unknown ids, while    *)
(* the clock advances between the calls.                                    *)

UpdKwargs ==
    {<<>>,
     [amount |-> 2, subcategory_id |-> 1],
     [date |-> ViewEditDate, description |-> <<"", "Groceries">>,
      transaction_type |-> "expense", category_id |-> 2, notes |-> "memo"],
     [subcategory_id |-> 1],
     [transaction_type |-> "refund"]}

UpdTick ==
    /\ clock < MaxClock
    /\ clock' = clock + 1
    /\ UNCHANGED <<categories, transactions, connection, handles>>
    /\ last' = Returned(Call("now", 0, 0, FALSE, {}), TRUE, clock')

UpdAddTransaction ==
    /\ NextRowId(transactions) <= MaxUpdTx
    /\ add_transaction(LedgerDate, LedgerDescription, 1, "income", 1, None)

UpdUpdateTransaction ==
    \E id \in 1..(MaxUpdTx + 1), kwargs \in UpdKwargs :
        update_transaction(id, kwargs)

NextUpdate ==
    \/ UpdTick
    \/ UpdAddTransaction
    \/ UpdUpdateTransaction

SpecUpdate == Init /\ [][NextUpdate]_vars

-----------------------------------------------------------------------------
(* SpecList: the two list queries over every store of up to MaxListLen      *)
(* transactions on three dates, so that dates repeat.                       *)

ListMidDate == 20230115
ListDates == {LedgerDate, ListMidDate, ViewEditDate}
ListLimits == {<<>>, <<0>>, <<1>>, <<2>>}
ListOffsets == {0, 1, 2}

ListRows ==
    {NewRow(date, LedgerDescription, 1, "expense", 1, None, 0) : date \in ListDates}

InitList ==
    /\ categories = DefaultCategories
    /\ transactions \in UNION {[1..n -> ListRows] : n \in 0..MaxListLen}
    /\ clock = 0
    /\ last = Returned(Call("__init__", 0, 0, FALSE, {}), TRUE, 0)
    /\ connection = 1
    /\ handles = (1 :> "open")

GetAllTransactions ==
    \E limit \in ListLimits, offset \in ListOffsets :
        /\ UNCHANGED <<categories, transactions, clock>>
        /\ _get_connection
        /\ last' = [Returned(Call("get_all_transactions", 0, 0, FALSE, {}), TRUE,
                             get_all_transactions_limit(categories, transactions,
                                                        limit, offset))
                        EXCEPT !.data = [limit |-> limit, offset |-> offset]]

GetTransactionsByPeriod ==
    \E start_date \in ListDates, end_date \in ListDates :
        \E rows \in get_transactions_by_period(categories, transactions,
                                               start_date, end_date) :
            /\ UNCHANGED <<categories, transactions, clock>>
            /\ _get_connection
            /\ last' = Returned(Call("get_transactions_by_period", start_date,
                                     end_date, FALSE, {}), TRUE, rows)

NextList ==
    \/ GetAllTransactions
    \/ GetTransactionsByPeriod

SpecList == InitList /\ [][NextList]_vars

-----------------------------------------------------------------------------
(* SpecNames: accounts are added, renamed and retyped, deleted and merged,  *)
(* with names that are free or in use and types that the schema allows or   *)
(* not; no transaction is stored.                                           *)

NamesNames == {"Checking Account", "Savings Account A", "Livret"}
NamesIds == 1..MaxNameCatId

NamesAddCategory ==
    \E name \in NamesNames, type \in {"savings", "current"} :
        /\ NextRowId(categories) <= MaxNameCatId
        /\ add_category(name, AcctColor, type)

NamesUpdateCategory ==
    \E id \in NamesIds, name \in NamesNames, type \in {None, "checking", "current"} :
        update_category(id, name, AcctColor, type)

NamesDeleteCategory ==
    \E id \in NamesIds : delete_category(id, FALSE)

NamesMergeCategories ==
    \E s \in NamesIds, t \in AcctTargets : merge_categories(s, t)

NextNames ==
    \/ NamesAddCategory
    \/ NamesUpdateCategory
    \/ NamesDeleteCategory
    \/ NamesMergeCategories

SpecNames == Init /\ [][NextNames]_vars

-----------------------------------------------------------------------------
(* SpecRename: the checking account (1) and a savings account (2) are       *)
(* renamed while transactions described as transfers to or from the         *)
(* checking account, or as something else, are stored.                      *)

RenNames == {"Checking Account", "New Name"}

RenDescriptions ==
    {<<"Transfer to ", "Checking Account">>,
     <<"Transfer from ", "Checking Account">>,
     <<"", "Unrelated Transaction">>}

RenAddTransaction ==
    \E description \in RenDescriptions :
        /\ NextRowId(transactions) <= MaxRenTx
        /\ add_transaction(LedgerDate, description, 1, "expense", 1, None)

RenUpdateCategory ==
    \E id \in {1, 2}, name \in RenNames :
        update_category(id, name, AcctColor, "checking")

NextRename ==
    \/ RenAddTransaction
    \/ RenUpdateCategory

SpecRename == Init /\ [][NextRename]_vars

-----------------------------------------------------------------------------
(* SpecStats: the monthly summary, the history figures and the distribution *)
(* over every store of up to MaxStatsLen transactions dated on the first of *)
(* December, January or February, incomes and expenses, posted to the       *)
(* checking account (1), a savings account (2), an account that is not      *)
(* stored (9) or none, and a transfer.                                      *)

StatsDecDate == 20221201
StatsDates == {StatsDecDate, LedgerDate, ViewEditDate}
StatsMonths == {<<2022, 12>>, <<2023, 1>>}
StatsPosted == {NULL, 1, 2, 9}

\* An income of 2 or an expense of 1 on every date and account, and a
\* transfer of 2 on the checking account.
StatsRows ==
    {NewRow(date, LedgerDescription, IF type = "expense" THEN 1 ELSE 2, type,
            cat, None, 0) :
        date \in StatsDates, type \in {"income", "expense"}, cat \in StatsPosted}
    \cup {NewRow(LedgerDate, LedgerDescription, 2, "transfer", 1, None, 0)}

InitStats ==
    /\ categories = DefaultCategories
    /\ transactions \in UNION {[1..n -> StatsRows] : n \in 0..MaxStatsLen}
    /\ clock = 0
    /\ last = Returned(Call("__init__", 0, 0, FALSE, {}), TRUE, 0)
    /\ connection = 1
    /\ handles = (1 :> "open")

GetMonthlySummary ==
    \E ym \in StatsMonths :
        /\ UNCHANGED <<categories, transactions, clock>>
        /\ _get_connection
        /\ last' = Returned(Call("get_monthly_summary", ym[1], ym[2], FALSE, {}),
                            TRUE,
                            get_monthly_summary(categories, transactions,
                                                ym[1], ym[2]))

GetHistory ==
    \E date_limit \in StatsDates :
        /\ UNCHANGED <<categories, transactions, clock>>
        /\ _get_connection
        /\ last' = Returned(Call("get_history", date_limit, 0, FALSE, {}), TRUE,
              [balance |-> get_history_balance(categories, transactions, date_limit),
               savings |-> get_history_savings(categories, transactions, date_limit),
               patrimony |-> get_history_patrimony(transactions, date_limit)])

GetAccountsDistribution ==
    \E distribution \in get_accounts_distribution(categories, transactions) :
        /\ UNCHANGED <<categories, transactions, clock>>
        /\ _get_connection
        /\ last' = Returned(Call("get_accounts_distribution", 0, 0, FALSE, {}),
                            TRUE, distribution)

NextStats ==
    \/ GetMonthlySummary
    \/ GetHistory
    \/ GetAccountsDistribution

SpecStats == InitStats /\ [][NextStats]_vars

-----------------------------------------------------------------------------
(* SpecImport: amounts reach the store from the form of the transaction     *)
(* view, which saves new and edited transactions, and from CSV files of up  *)
(* to MaxCsvLen rows whose amount is negative, zero, positive or not a      *)
(* number and whose date is read or not, imported into a stored or a new    *)
(* account.                                                                 *)

MaxImportTx == 2    \* SpecImport: largest transaction id handed out
MaxCsvLen == 2      \* SpecImport: most rows of a CSV file

ImportAmountCells == {<<0 - 2>>, <<0>>, <<1>>, <<>>}
ImportDateCells == {<<LedgerDate>>, <<>>}

ImportCsvRows ==
    [date : ImportDateCells, description : {<<"", "Groceries">>},
     amount : ImportAmountCells]

ImportFiles == UNION {[1..n -> ImportCsvRows] : n \in 0..MaxCsvLen}

ImportNames == {"Savings Account A", "Imported"}

ImportDescriptions == {<<"", "Salary">>, <<"", "">>}

ImportData ==
    \E new_account \in BOOLEAN, name \in ImportNames,
       account \in DOMAIN categories, rows \in ImportFiles :
        /\ NextRowId(transactions) + Len(rows) - 1 <= MaxImportTx
        /\ NextRowId(categories) <= Cardinality(DOMAIN DefaultCategories) + 1
        /\ _import_data(new_account, name, account, rows)

FormSaveNew ==
    \E data \in NewStandardData, description \in ImportDescriptions,
       amount_field \in ImportAmountCells :
        /\ NextRowId(transactions) <= MaxImportTx
        /\ _on_save_click(data, description, amount_field)

FormSaveEdit ==
    \E id \in DOMAIN transactions, description \in ImportDescriptions,
       amount_field \in ImportAmountCells :
        _on_save_click(EditStandardData(id), description, amount_field)

NextImport ==
    \/ ImportData
    \/ FormSaveNew
    \/ FormSaveEdit

SpecImport == Init /\ [][NextImport]_vars

-----------------------------------------------------------------------------
(* SpecExport: transactions of one-, two- and three-digit amounts, among    *)
(* them the zero and the negative amount the store accepts, are added and   *)
(* deleted, and the ledger is exported to files that can or cannot be       *)
(* written.                                                                 *)

MaxExportTx == 3    \* SpecExport: largest transaction id handed out

ExportAmounts == {0 - 7, 0, 1, 12, 100}

ExportAddTransaction ==
    \E amount \in ExportAmounts :
        /\ NextRowId(transactions) <= MaxExportTx
        /\ add_transaction(LedgerDate, LedgerDescription, amount, "expense", 1, None)

ExportDeleteTransaction ==
    \E id \in DOMAIN transactions : delete_transaction(id)

ExportToJson ==
    \E writable \in BOOLEAN : export_to_json(writable)

NextExport ==
    \/ ExportAddTransaction
    \/ ExportDeleteTransaction
    \/ ExportToJson

SpecExport == Init /\ [][NextExport]_vars

-----------------------------------------------------------------------------
(* SpecConnection: the manager is used and closed in any order: after the   *)
(* constructor has initialised the store, transactions are added, the       *)
(* patrimony is read and close() is called, also twice in a row and in the  *)
(* middle of the session.                                                   *)

MaxHandles == 3     \* SpecConnection: most connection objects made
MaxConnTx == 3      \* SpecConnection: largest transaction id handed out

\* An operation may be issued when it can reuse the connection held or make
\* one more.
CanConnect == connection # NULL \/ NextRowId(handles) <= MaxHandles

ConnAddTransaction ==
    \E amount \in LedgerAmounts :
        /\ CanConnect
        /\ NextRowId(transactions) <= MaxConnTx
        /\ add_transaction(LedgerDate, LedgerDescription, amount, "income", 1, None)

ConnGetTotalPatrimony ==
    /\ CanConnect
    /\ UNCHANGED <<categories, transactions, clock>>
    /\ _get_connection
    /\ last' = Returned(Call("get_total_patrimony", 0, 0, FALSE, {}), TRUE,
                        get_total_patrimony(transactions))

ConnClose == close

NextConnection ==
    \/ ConnAddTransaction
    \/ ConnGetTotalPatrimony
    \/ ConnClose

SpecConnection == Init /\ [][NextConnection]_vars

-----------------------------------------------------------------------------
(* SpecRefs: accounts are added, renamed, deleted in both modes and merged  *)
(* (also into themselves and into accounts that are not stored) while       *)
(* transactions are posted to no account or to an account stored at the     *)
(* time.                                                                    *)

MaxRefCatId == 4    \* SpecRefs: largest account id handed out
MaxRefTx == 2       \* SpecRefs: largest transaction id handed out

RefIds == 1..MaxRefCatId

RefAddCategory ==
    /\ NextRowId(categories) <= MaxRefCatId
    /\ add_category("Livret", AcctColor, "savings")

RefUpdateCategory ==
    \E id \in RefIds : update_category(id, "Compte", AcctColor, None)

RefDeleteCategory ==
    \E id \in RefIds, del \in BOOLEAN : delete_category(id, del)

RefMergeCategories ==
    \E source \in RefIds, target \in RefIds : merge_categories(source, target)

RefAddTransaction ==
    \E cat \in DOMAIN categories \cup {NULL} :
        /\ NextRowId(transactions) <= MaxRefTx
        /\ add_transaction(LedgerDate, LedgerDescription, 1, "income", cat, None)

NextRefs ==
    \/ RefAddCategory
    \/ RefUpdateCategory
    \/ RefDeleteCategory
    \/ RefMergeCategories
    \/ RefAddTransaction

SpecRefs == Init /\ [][NextRefs]_vars

-----------------------------------------------------------------------------
(* SpecDashboard: the dashboard is loaded in January and in February over a *)
(* store that holds the two legs of a transfer described as the transaction *)
(* view describes them, a transfer described in English and a salary, and   *)
(* in which transfers are created and edited through the transaction view.  *)

MaxDashTx == 3      \* SpecDashboard: largest transaction id handed out

DashImported ==
    ViewImported \cup
    {[description |-> <<"Transfer to ", "Savings Account A">>,
      transaction_type |-> "expense", category_id |-> 1]}

DashMonths == {<<2023, 1>>, <<2023, 2>>}

DashAddTransaction ==
    \E row \in DashImported :
        /\ NextRowId(transactions) <= MaxDashTx
        /\ add_transaction(LedgerDate, row.description, 1, row.transaction_type,
                           row.category_id, None)

DashSaveNewTransfer == SaveNewTransfer

DashSaveEditTransfer == SaveEditTransfer

DashLoadData == \E now \in DashMonths : _load_data(now)

NextDashboard ==
    \/ DashAddTransaction
    \/ DashSaveNewTransfer
    \/ DashSaveEditTransfer
    \/ DashLoadData

SpecDashboard == Init /\ [][NextDashboard]_vars

-----------------------------------------------------------------------------
(* SpecEdit: accounts are edited and added through the accounts view, and   *)
(* retyped by update_category calls that name a type, while incomes and     *)
(* expenses are posted to the checking account (1) and to a savings         *)
(* account (2).                                                             *)

MaxEditTx == 2      \* SpecEdit: largest transaction id handed out
MaxEditCatId == 4   \* SpecEdit: largest account id handed out

EditNames == {"", "Checking Account", "Main"}

EditAddTransaction ==
    \E amount \in LedgerAmounts, type \in {"income", "expense"}, cat \in {1, 2} :
        /\ NextRowId(transactions) <= MaxEditTx
        /\ add_transaction(LedgerDate, LedgerDescription, amount, type, cat, None)

EditSaveAccount ==
    \E editing_id \in {NULL, 1, 2}, name \in EditNames :
        /\ editing_id = NULL => NextRowId(categories) <= MaxEditCatId
        /\ _save_account(editing_id, name, AcctColor)

EditRetype ==
    \E id \in {1, 2}, type \in AccountTypes :
        update_category(id, categories[id].name, AcctColor, type)

NextEdit ==
    \/ EditAddTransaction
    \/ EditSaveAccount
    \/ EditRetype

SpecEdit == Init /\ [][NextEdit]_vars

-----------------------------------------------------------------------------
(* SpecOpen: the store is closed and opened again by a new manager, after   *)
(* accounts have been added and deleted, all of them included.              *)

MaxOpenCatId == 4   \* SpecOpen: largest account id handed out

OpenAddCategory ==
    /\ CanConnect
    /\ NextRowId(categories) <= MaxOpenCatId
    /\ add_category("Livret", AcctColor, "savings")

OpenDeleteCategory ==
    \E id \in DOMAIN categories :
        /\ CanConnect
        /\ delete_category(id, FALSE)

OpenClose == close

\* A new manager is made once the one before has been closed.
OpenAgain ==
    /\ connection = NULL
    /\ NextRowId(handles) <= MaxHandles
    /\ __init__

NextOpen ==
    \/ OpenAddCategory
    \/ OpenDeleteCategory
    \/ OpenClose
    \/ OpenAgain

SpecOpen == Init /\ [][NextOpen]_vars

-----------------------------------------------------------------------------
(* Claims about the aggregation queries *)

RECURSIVE SumAmounts(_, _)
SumAmounts(tx, ids) ==
    IF ids = {} THEN 0
    ELSE LET i == CHOOSE x \in ids : TRUE
         IN tx[i].amount + SumAmounts(tx, ids \ {i})

OfTxType(tx, ids, type) == {i \in ids : tx[i].transaction_type = type}

\* Income minus expense over the rows ids.
IncomeMinusExpense(tx, ids) ==
    SumAmounts(tx, OfTxType(tx, ids, "income"))
        - SumAmounts(tx, OfTxType(tx, ids, "expense"))

\* The rows posted to an existing account of the given type.
PostedTo(cat, tx, type) ==
    {i \in DOMAIN tx : \E c \in DOMAIN cat :
        c = tx[i].category_id /\ cat[c].type = type}

\* The stored accounts of the given type.
PostedAccounts(cat, type) == {c \in DOMAIN cat : cat[c].type = type}

\* C1: whatever transactions are stored, on whatever account or none,
\* get_total_patrimony() is the sum of the income amounts minus the sum of
\* the expense amounts.
C1_PatrimonyIsIncomeMinusExpense ==
    get_total_patrimony(transactions)
        = IncomeMinusExpense(transactions, DOMAIN transactions)

\* An income with no account and an expense of another amount on an account,
\* just added.
C1_Witness ==
    /\ last.op = "add_transaction" /\ last.ok
    /\ \E i, j \in DOMAIN transactions :
        /\ transactions[i].transaction_type = "income"
        /\ transactions[i].category_id = NULL
        /\ transactions[j].transaction_type = "expense"
        /\ transactions[j].category_id # NULL
        /\ transactions[i].amount # transactions[j].amount

EveryRowOnTypedAccount ==
    \A i \in DOMAIN transactions :
        /\ transactions[i].category_id # NULL
        /\ transactions[i].category_id \in DOMAIN categories
        /\ categories[transactions[i].category_id].type \in AccountTypes

\* C2: when every transaction has a non-null category_id that references an
\* existing checking or savings account, get_balance() + get_savings_total()
\* equals get_total_patrimony().
C2_BalancePlusSavingsIsPatrimony ==
    EveryRowOnTypedAccount =>
        get_balance(categories, transactions)
            + get_savings_total(categories, transactions)
          = get_total_patrimony(transactions)

\* A row on a checking account and a row on a savings account, nothing else.
C2_Witness ==
    /\ EveryRowOnTypedAccount
    /\ PostedTo(categories, transactions, "checking") # {}
    /\ PostedTo(categories, transactions, "savings") # {}
    /\ get_savings_total(categories, transactions) # 0
    /\ get_balance(categories, transactions) # 0

\* C3: get_balance() is income minus expense over exactly the rows posted to
\* a checking account and get_savings_total() over exactly those posted to a
\* savings account; a row added to an account of one type leaves the other
\* figure as it was and moves get_total_patrimony() by its signed amount.
C3_Figures ==
    /\ get_balance(categories, transactions)
         = IncomeMinusExpense(transactions,
                              PostedTo(categories, transactions, "checking"))
    /\ get_savings_total(categories, transactions)
         = IncomeMinusExpense(transactions,
                              PostedTo(categories, transactions, "savings"))

C3_AddStep ==
    (last'.op = "add_transaction" /\ last'.ok) =>
        LET t == transactions'[last'.val]
            signed == IncomeMinusExpense(transactions', {last'.val})
            type == IF t.category_id \in DOMAIN categories
                    THEN categories[t.category_id].type ELSE None
        IN /\ type # "checking" =>
                get_balance(categories', transactions')
                    = get_balance(categories, transactions)
           /\ type # "savings" =>
                get_savings_total(categories', transactions')
                    = get_savings_total(categories, transactions)
           /\ type = "checking" =>
                get_balance(categories', transactions')
                    = get_balance(categories, transactions) + signed
           /\ type = "savings" =>
                get_savings_total(categories', transactions')
                    = get_savings_total(categories, transactions) + signed
           /\ get_total_patrimony(transactions')
                = get_total_patrimony(transactions) + signed

C3_AccountDiscrimination == [](C3_Figures) /\ [][C3_AddStep]_vars

\* An income on a savings account was just added beside a row on a checking
\* account: the checking balance and the savings total differ.
C3_Witness ==
    /\ last.op = "add_transaction" /\ last.ok
    /\ last.val \in PostedTo(categories, transactions, "savings")
    /\ PostedTo(categories, transactions, "checking") # {}
    /\ get_balance(categories, transactions)
         # get_savings_total(categories, transactions)
    /\ get_total_patrimony(transactions)
         = get_balance(categories, transactions)
             + get_savings_total(categories, transactions)

-----------------------------------------------------------------------------
(* Claims about the list queries *)

\* The list holds every stored transaction exactly once, a later date before
\* an earlier one and, on one date, a larger id before a smaller one.
C12_EveryRowOnceDateIdDesc(rows) ==
    /\ Len(rows) = Cardinality(DOMAIN transactions)
    /\ \A i \in DOMAIN transactions : \E n \in 1..Len(rows) :
         /\ rows[n]["id"] = i
         /\ \A f \in DOMAIN transactions[i] : rows[n][f] = transactions[i][f]
    /\ \A m, n \in 1..Len(rows) :
         m < n => \/ rows[m]["date"] > rows[n]["date"]
                  \/ /\ rows[m]["date"] = rows[n]["date"]
                     /\ rows[m]["id"] > rows[n]["id"]

\* The slice of rows that skips offset rows and holds at most limit rows.
C12_Slice(rows, limit, offset) ==
    [n \in 1..(IF Len(rows) - offset < 0 THEN 0
               ELSE IF Len(rows) - offset < limit THEN Len(rows) - offset
               ELSE limit) |-> rows[offset + n]]

\* C12: get_all_transactions() without a limit returns every stored
\* transaction exactly once, by date descending and then id descending; with
\* a limit and an offset it returns that slice of the same ordering.
C12_ListingAndSlice ==
    last.op = "get_all_transactions" =>
        IF last.data["limit"] = <<>>
        THEN C12_EveryRowOnceDateIdDesc(last.val)
        ELSE \E all \in {get_all_transactions(categories, transactions)} :
                /\ C12_EveryRowOnceDateIdDesc(all)
                /\ last.val = C12_Slice(all, last.data["limit"][1],
                                        last.data["offset"])

\* The rows of the list whose date lies in [start, end].
C13_InPeriod(rows, start, end) ==
    SelectSeq(rows, LAMBDA t : start <= t["date"] /\ t["date"] <= end)

\* C13: get_transactions_by_period(start, end) returns exactly the
\* transactions dated from start to end, both included, in the ordering of
\* get_all_transactions: date descending, then id descending.
C13_PeriodListing ==
    last.op = "get_transactions_by_period" =>
        last.val = C13_InPeriod(get_all_transactions(categories, transactions),
                                last.id, last.other)

-----------------------------------------------------------------------------
(* Claims about account names *)

C14_RenameStep ==
    (/\ last'.op = "update_category" /\ last'.ok
     /\ categories'[last'.id].name # categories[last'.id].name) =>
        LET old == categories[last'.id].name
            new == categories'[last'.id].name
        IN /\ DOMAIN transactions' = DOMAIN transactions
           /\ \A i \in DOMAIN transactions :
                LET d == transactions[i].description
                IN transactions'[i].description =
                     IF d = <<"Transfer to ", old>> THEN <<"Transfer to ", new>>
                     ELSE IF d = <<"Transfer from ", old>> THEN <<"Transfer from ", new>>
                     ELSE d

\* C14: when update_category changes an account's name from old to new,
\* every description "Transfer to old" / "Transfer from old" is rewritten
\* with new, and every other description is left as it was.
C14_RenamePropagates == [][C14_RenameStep]_vars

C15_DuplicateStep ==
    /\ (/\ last'.op = "add_category"
        /\ \E c \in DOMAIN categories : categories[c].name = last'.data["name"]) =>
            /\ last'.exc = ""
            /\ last'.val = 0 - 1
            /\ categories' = categories
            /\ transactions' = transactions
    /\ (/\ last'.op = "update_category"
        /\ last'.id \in DOMAIN categories
        /\ \E c \in DOMAIN categories \ {last'.id} :
              categories[c].name = last'.data["name"]) =>
            /\ last'.exc = ""
            /\ ~last'.ok
            /\ categories' = categories
            /\ transactions' = transactions

\* C15: a duplicate account name is a failure value, never an exception, and
\* changes nothing: add_category with a name in use returns -1 and adds no
\* account; update_category to a name another account uses returns False
\* and leaves every account unchanged.
C15_DuplicateNameFails == [][C15_DuplicateStep]_vars

\* update_category was just refused for an allowed type and a name that
\* another stored account has.
C15_Witness ==
    /\ last.op = "update_category" /\ ~last.ok /\ last.exc = ""
    /\ last.id \in DOMAIN categories
    /\ last.data["account_type"] = "checking"
    /\ categories[last.id].name # last.data["name"]
    /\ \E c \in DOMAIN categories \ {last.id} :
         categories[c].name = last.data["name"]

\* C16: after any sequence of add_category, update_category,
\* delete_category and merge_categories calls, no two stored accounts have
\* the same name and every stored account is of type checking or savings.
C16_UniqueNamesValidTypes ==
    /\ \A c, d \in DOMAIN categories :
         c # d => categories[c].name # categories[d].name
    /\ \A c \in DOMAIN categories : categories[c].type \in {"checking", "savings"}

\* An account was added, another renamed and retyped, a third deleted or
\* merged away, and an add or update with a type outside the schema was
\* just refused.
C16_Witness ==
    /\ last.op \in {"add_category", "update_category"}
    /\ ~last.ok
    /\ last.data["account_type"] = "current"
    /\ 4 \in DOMAIN categories
    /\ DOMAIN DefaultCategories \ DOMAIN categories # {}
    /\ \E c \in DOMAIN categories \cap DOMAIN DefaultCategories :
         /\ categories[c].name # DefaultCategories[c].name
         /\ categories[c].type # DefaultCategories[c].type

-----------------------------------------------------------------------------
(* Claims about deleting and merging accounts *)

\* Row i is the same in both tables but for its category_id.
SameButCategory(tx1, tx2, i) ==
    \A f \in DOMAIN tx1[i] : f # "category_id" => tx2[i][f] = tx1[i][f]

Referencing(tx, id) == {i \in DOMAIN tx : tx[i].category_id = id}

C8_DeleteStep ==
    last'.op = "delete_category" =>
        LET id == last'.id
            refs == Referencing(transactions, id)
        IN /\ id \notin DOMAIN categories'
           /\ \A c \in DOMAIN categories \ {id} :
                c \in DOMAIN categories' /\ categories'[c] = categories[c]
           /\ DOMAIN categories' \subseteq DOMAIN categories
           /\ IF last'.flag
              THEN /\ DOMAIN transactions' = DOMAIN transactions \ refs
                   /\ \A i \in DOMAIN transactions' :
                        transactions'[i] = transactions[i]
              ELSE /\ DOMAIN transactions' = DOMAIN transactions
                   /\ \A i \in refs :
                        /\ transactions'[i].category_id = NULL
                        /\ SameButCategory(transactions, transactions', i)
                   /\ \A i \in DOMAIN transactions \ refs :
                        transactions'[i] = transactions[i]

\* C8: delete_category(id, True) removes the account and exactly the
\* transactions that reference it; delete_category(id, False) removes the
\* account, sets category_id to NULL on the transactions that referenced it
\* and leaves their number and their other fields as they were.
C8_DeleteCategoryModes == [][C8_DeleteStep]_vars

\* delete_category(id, False) on an existing account has just returned True:
\* the account is gone, no row references it, and a row with no account
\* stands beside a row on another account.
C8_Witness ==
    /\ last.op = "delete_category" /\ last.ok /\ ~last.flag
    /\ last.id \notin DOMAIN categories
    /\ Referencing(transactions, last.id) = {}
    /\ Referencing(transactions, NULL) # {}
    /\ \E i \in DOMAIN transactions :
         transactions[i].category_id \notin {NULL, last.id}

C9_MergeStep ==
    last'.op = "merge_categories" =>
        LET source == last'.id
            target == last'.other
            refs == Referencing(transactions, source)
        IN /\ source \notin DOMAIN categories'
           /\ DOMAIN transactions' = DOMAIN transactions
           /\ \A i \in refs :
                /\ transactions'[i].category_id = target
                /\ SameButCategory(transactions, transactions', i)
           /\ \A i \in DOMAIN transactions \ refs :
                transactions'[i] = transactions[i]

\* C9: after merge_categories(source, target) every transaction that
\* referenced source references target, the source account is gone, the
\* number of transactions is unchanged and the others are untouched.
C9_MergeCategories == [][C9_MergeStep]_vars

\* merge_categories(source, target) with two different accounts has just
\* returned: a row references target, another row references neither.
C9_Witness ==
    /\ last.op = "merge_categories" /\ last.ok
    /\ last.id # last.other
    /\ last.other \in DOMAIN categories
    /\ last.id \notin DOMAIN categories
    /\ Referencing(transactions, last.other) # {}
    /\ \E i \in DOMAIN transactions :
         transactions[i].category_id \notin {last.id, last.other}

-----------------------------------------------------------------------------
(* Claims about the statistics *)

\* The rows dated in [start, end) that are posted to a checking account or
\* have no account id.
C17_MonthRows(start, end) ==
    {i \in DOMAIN transactions :
        /\ start <= transactions[i].date /\ transactions[i].date < end
        /\ \/ transactions[i].category_id = NULL
           \/ transactions[i].category_id
                \in PostedAccounts(categories, "checking")}

\* C17: get_monthly_summary(year, month) returns as income the sum of the
\* income amounts and as expenses the sum of the expense amounts, both
\* non-negative, over exactly the transactions dated from the first day of
\* the month to before the first day of the next month (January of year + 1
\* after December) that are on a checking account or on none; balance is
\* income - expenses; transactions on savings accounts are left out.
C17_MonthlySummary ==
    last.op = "get_monthly_summary" =>
        LET year == last.id
            month == last.other
            start == year * 10000 + month * 100 + 1
            end == IF month = 12 THEN (year + 1) * 10000 + 101
                   ELSE year * 10000 + (month + 1) * 100 + 1
            rows == C17_MonthRows(start, end)
        IN /\ last.val["income"] = SumAmounts(transactions,
                                        OfTxType(transactions, rows, "income"))
           /\ last.val["expenses"] = SumAmounts(transactions,
                                        OfTxType(transactions, rows, "expense"))
           /\ last.val["income"] >= 0
           /\ last.val["expenses"] >= 0
           /\ last.val["balance"] = last.val["income"] - last.val["expenses"]

\* The summary of December 2022 was just computed over a December income on
\* the checking account, which it counts, and a January income, which it
\* does not.
C17_Witness ==
    /\ last.op = "get_monthly_summary" /\ last.other = 12
    /\ last.val["income"] = 2
    /\ \E i, j \in DOMAIN transactions :
         /\ transactions[i].date = StatsDecDate
         /\ transactions[i].category_id = 1
         /\ transactions[i].transaction_type = "income"
         /\ transactions[j].date = LedgerDate
         /\ transactions[j].transaction_type = "income"

\* The store cut down to the transactions dated before d.
C18_StoreBefore(d) ==
    [i \in {j \in DOMAIN transactions : transactions[j].date < d} |->
        transactions[i]]

\* C18: get_history_balance(d), get_history_savings(d) and
\* get_history_patrimony(d) are get_balance, get_savings_total and
\* get_total_patrimony over exactly the transactions dated strictly before
\* d, and 0 when there is none.
C18_HistoryFigures ==
    last.op = "get_history" =>
        LET before == C18_StoreBefore(last.id)
        IN /\ last.val["balance"] = get_balance(categories, before)
           /\ last.val["savings"] = get_savings_total(categories, before)
           /\ last.val["patrimony"] = get_total_patrimony(before)
           /\ DOMAIN before = {} =>
                /\ last.val["balance"] = 0
                /\ last.val["savings"] = 0
                /\ last.val["patrimony"] = 0

\* The history figures were just computed for a date on which an income is
\* stored, which they leave out, after an earlier expense on the checking
\* account, which they count.
C18_Witness ==
    /\ last.op = "get_history"
    /\ last.val["balance"] = 0 - 1
    /\ last.val["patrimony"] = 0 - 1
    /\ get_balance(categories, transactions) = 1
    /\ \E i \in DOMAIN transactions : transactions[i].date = last.id

\* C19: get_accounts_distribution() returns exactly one entry per stored
\* account, with value 0 for an account without transactions, and each
\* value is income minus expense over the transactions posted to that
\* account.
C19_Distribution ==
    last.op = "get_accounts_distribution" =>
        /\ Len(last.val) = Cardinality(DOMAIN categories)
        /\ \A c \in DOMAIN categories :
             \E n \in 1..Len(last.val) :
                /\ last.val[n]["name"] = categories[c].name
                /\ last.val[n]["value"] =
                     IncomeMinusExpense(transactions,
                                        Referencing(transactions, c))
                /\ Referencing(transactions, c) = {} => last.val[n]["value"] = 0

\* The distribution was just computed: the checking account has a negative
\* value, a savings account a positive one, the third account none.
C19_Witness ==
    /\ last.op = "get_accounts_distribution"
    /\ \E k, m, n \in 1..Len(last.val) :
         /\ last.val[k]["value"] < 0 /\ last.val[k]["name"] = "Checking Account"
         /\ last.val[m]["value"] > 0 /\ last.val[m]["name"] = "Savings Account A"
         /\ last.val[n]["value"] = 0 /\ last.val[n]["name"] = "Savings Account B"

-----------------------------------------------------------------------------
(* Claims about transfers in the transaction view *)

C4_SaveStep ==
    (/\ last'.op = "_save_transaction"
     /\ last'.id = NULL
     /\ last'.data["transaction_type"] = "transfer") =>
        LET data == last'.data
            new == DOMAIN transactions' \ DOMAIN transactions
        IN /\ Cardinality(new) = 2
           /\ \A i \in DOMAIN transactions :
                i \in DOMAIN transactions' /\ transactions'[i] = transactions[i]
           /\ \E e, c \in new :
                /\ transactions'[e].transaction_type = "expense"
                /\ transactions'[e].category_id = data["source_id"]
                /\ startswith(transactions'[e].description, "Virement vers ")
                /\ AfterPrefix(transactions'[e].description) = data["dest_name"]
                /\ transactions'[c].transaction_type = "income"
                /\ transactions'[c].category_id = data["dest_id"]
                /\ startswith(transactions'[c].description, "Virement de ")
                /\ AfterPrefix(transactions'[c].description) = data["source_name"]
                /\ transactions'[e].date = data["date"]
                /\ transactions'[c].date = data["date"]
                /\ transactions'[e].amount = data["amount"]
                /\ transactions'[c].amount = data["amount"]

\* C4: saving a new transfer inserts exactly two rows and no others, an
\* expense on the source account described as a transfer to the destination
\* and an income on the destination account described as a transfer from
\* the source, both with the date and the amount of the form.
C4_NewTransferInsertsTwoRows == [][C4_SaveStep]_vars

C5_DeleteGroupStep ==
    last'.op = "_confirm_delete_group" =>
        LET legs == {last'.id, last'.other}
        IN /\ legs \subseteq DOMAIN transactions
           /\ {transactions[i].transaction_type : i \in legs}
                = {"expense", "income"}
           /\ DOMAIN transactions' = DOMAIN transactions \ legs
           /\ \A i \in DOMAIN transactions' : transactions'[i] = transactions[i]
           /\ categories' = categories

C6_EditStep ==
    (/\ last'.op = "_save_transaction"
     /\ last'.id # NULL
     /\ last'.other # NULL
     /\ last'.data["transaction_type"] = "transfer") =>
        LET data == last'.data
            expense == transactions'[last'.id]
            income == transactions'[last'.other]
        IN /\ expense.date = data["date"] /\ income.date = data["date"]
           /\ expense.amount = data["amount"] /\ income.amount = data["amount"]
           /\ expense.transaction_type = "expense"
           /\ income.transaction_type = "income"
           /\ expense.category_id = data["source_id"]
           /\ income.category_id = data["dest_id"]

\* C6: saving an edit of a transfer group updates the expense leg (id) and
\* the income leg (other_id) together: afterwards both have the new date and
\* the new amount, their types are still expense and income, and they are
\* posted to the edited source and destination accounts.
C6_EditTransferUpdatesBothLegs == [][C6_EditStep]_vars

\* The rows a and b, in this order, are the legs of one transfer.
C7_IsPair(a, b) ==
    /\ a.amount = b.amount
    /\ a.date = b.date
    /\ \/ /\ a.transaction_type = "expense" /\ a.description[1] = "Virement vers "
          /\ b.transaction_type = "income" /\ b.description[1] = "Virement de "
       \/ /\ a.transaction_type = "income" /\ a.description[1] = "Virement de "
          /\ b.transaction_type = "expense" /\ b.description[1] = "Virement vers "

C7_Group(a, b) ==
    [transaction_type |-> "transfer_group",
     id |-> IF a.transaction_type = "expense" THEN a.id ELSE b.id,
     other_id |-> IF a.transaction_type = "expense" THEN b.id ELSE a.id]

\* The records the pass is to produce from position i on: a group for two
\* rows that are a pair, the scan going on two rows further, the row itself
\* otherwise, the scan going on one row further.
RECURSIVE C7_Expected(_, _)
C7_Expected(rows, i) ==
    IF i > Len(rows) THEN <<>>
    ELSE IF i < Len(rows) /\ C7_IsPair(rows[i], rows[i + 1])
    THEN <<C7_Group(rows[i], rows[i + 1])>> \o C7_Expected(rows, i + 2)
    ELSE <<rows[i]>> \o C7_Expected(rows, i + 1)

\* The records produced, a group reduced to its type and its two ids.
C7_Produced(grouped) ==
    [n \in 1..Len(grouped) |->
        IF grouped[n]["transaction_type"] = "transfer_group"
        THEN [transaction_type |-> "transfer_group",
              id |-> grouped[n]["id"], other_id |-> grouped[n]["other_id"]]
        ELSE grouped[n]]

\* C7: the pairing pass over the ordered list merges a row with the next one
\* into a transfer_group exactly when they have the same amount and date and
\* are an expense with the "to" prefix and an income with the "from" prefix;
\* the group has id = the expense leg, other_id = the income leg and the
\* source and destination account ids, and the scan goes on two rows
\* further; any other row is emitted unchanged and the scan goes on one row
\* further.
C7_PairingPass ==
    last.op = "_group_transactions" =>
        /\ last.exc = ""
        /\ C7_Produced(last.val)
             = C7_Expected(get_all_transactions(categories, transactions), 1)
        /\ \A n \in 1..Len(last.val) :
             last.val[n]["transaction_type"] = "transfer_group" =>
                {"source_id", "dest_id"} \subseteq DOMAIN last.val[n]

-----------------------------------------------------------------------------
(* Claims about update_transaction *)

C11_UpdateStep ==
    last'.op = "update_transaction" =>
        LET id == last'.id
            kwargs == last'.data
            passed == DOMAIN kwargs \cap
                {"date", "description", "amount", "transaction_type",
                 "category_id", "notes"}
        IN /\ categories' = categories
           /\ DOMAIN transactions' = DOMAIN transactions
           /\ \A i \in DOMAIN transactions \ {id} :
                transactions'[i] = transactions[i]
           /\ passed = {} =>
                ~last'.ok /\ last'.exc = "" /\ transactions' = transactions
           /\ id \in DOMAIN transactions =>
                /\ DOMAIN transactions'[id] = DOMAIN transactions[id]
                /\ transactions'[id].created_at = transactions[id].created_at
                /\ ~last'.ok => transactions'[id] = transactions[id]
                /\ last'.ok =>
                     \A f \in DOMAIN transactions[id] :
                        transactions'[id][f] =
                            IF f \in passed THEN kwargs[f]
                            ELSE IF f = "updated_at" THEN clock
                            ELSE transactions[id][f]

\* C11: update_transaction(id, **fields) changes, on the matched row only,
\* exactly the passed fields of the allow-list and updated_at; unrecognized
\* names are ignored, id and created_at never change, and with no field
\* passed or none in the allow-list it returns False and changes nothing.
C11_UpdateFrame == [][C11_UpdateStep]_vars

\* update_transaction was just called with an allowed and an unrecognized
\* field and returned True: the row has the passed amount, an updated_at later
\* than its created_at, no column of the unrecognized name, and another row
\* is stored beside it.
C11_Witness ==
    /\ last.op = "update_transaction" /\ last.ok
    /\ "subcategory_id" \in last.keys
    /\ "amount" \in last.keys
    /\ transactions[last.id].amount = 2
    /\ transactions[last.id].updated_at > transactions[last.id].created_at
    /\ "subcategory_id" \notin DOMAIN transactions[last.id]
    /\ DOMAIN transactions \ {last.id} # {}

C10_UpdateStep ==
    (last'.op = "update_transaction" /\ last'.id \notin DOMAIN transactions) =>
        /\ ~last'.ok
        /\ last'.exc = ""
        /\ transactions' = transactions
        /\ categories' = categories

\* C10: update_transaction with an id that matches no stored transaction
\* returns False and changes no row, whatever fields are passed.
C10_UpdateUnknownId == [][C10_UpdateStep]_vars

\* update_transaction was just called with an allowed field and an id that
\* is not stored, beside stored rows.
C10_Witness ==
    /\ last.op = "update_transaction"
    /\ last.id \notin DOMAIN transactions
    /\ last.keys \cap allowed_fields # {}
    /\ DOMAIN transactions # {}
    /\ ~last.ok

-----------------------------------------------------------------------------
(* Claims about the sign convention *)

\* C20: after any sequence of saves through the transaction form and of CSV
\* imports, the amount of every stored transaction is positive (above
\* zero); the direction is carried by transaction_type alone.
C20_AmountsPositive ==
    \A i \in DOMAIN transactions : transactions[i].amount > 0

-----------------------------------------------------------------------------
(* Claims about the export *)

\* The entries of an exported list that carry the id of a stored transaction.
EntriesOf(entries, id) == {n \in 1..Len(entries) : entries[n].id = id}

\* C21: a successful export_to_json writes a 'transactions' list with
\* exactly one entry per stored transaction, of the same id and, once read
\* back, of the same amount, so the count and the amounts rebuilt from the
\* file are those of the store; the export changes no stored row.
C21_ExportStep ==
    last'.op = "export_to_json" =>
        /\ UNCHANGED <<categories, transactions>>
        /\ last'.ok =>
             LET entries == last'.data.transactions
             IN /\ Len(entries) = Cardinality(DOMAIN transactions)
                /\ \A n \in 1..Len(entries) : entries[n].id \in DOMAIN transactions
                /\ \A i \in DOMAIN transactions :
                     /\ Cardinality(EntriesOf(entries, i)) = 1
                     /\ \A n \in EntriesOf(entries, i) :
                          ParseJsonNumber(entries[n].amount) = transactions[i].amount

C21_ExportPreserves == [][C21_ExportStep]_vars

C21_Witness ==
    /\ last.op = "export_to_json"
    /\ last.ok
    /\ Cardinality(DOMAIN transactions) >= 2
    /\ \E i \in DOMAIN transactions : transactions[i].amount = 100
    /\ \E i \in DOMAIN transactions : transactions[i].amount < 0

-----------------------------------------------------------------------------
(* Claims about the display of transfers *)

\* The positions of two rows of the list that are the legs of one transfer
\* and have at least one row between them.
C22_ApartLegs(rows) ==
    {p \in (1..Len(rows)) \X (1..Len(rows)) :
        /\ p[1] + 1 < p[2]
        /\ C7_IsPair(rows[p[1]], rows[p[2]])}

\* The row of the list is displayed once, as a standard row with its own
\* edit and delete handlers.
C22_Standalone(displayed, row) ==
    /\ Cardinality({n \in 1..Len(displayed) : row.id \in Range(displayed[n].ids)}) = 1
    /\ \E n \in 1..Len(displayed) :
         /\ ~displayed[n].is_group
         /\ displayed[n].t = row
         /\ displayed[n].edit_action = "_edit_transaction"
         /\ displayed[n].delete_action = "_confirm_delete"
         /\ displayed[n].ids = <<row.id>>

\* C22: the pairing pass never backtracks: when the two legs of a transfer
\* are not adjacent in the ordered list, neither is merged and both are
\* displayed as standalone rows, each with its own edit and delete.
C22_ApartLegsStandalone ==
    LET rows == get_all_transactions(categories, transactions)
    IN (last.op = "_generate_rows" /\ C22_ApartLegs(rows) # {}) =>
          /\ last.exc = ""
          /\ \A p \in C22_ApartLegs(rows) :
               /\ C22_Standalone(last.val, rows[p[1]])
               /\ C22_Standalone(last.val, rows[p[2]])

-----------------------------------------------------------------------------
(* Claims about the connection *)

OpenHandles(h) == {i \in DOMAIN h : h[i] = "open"}

\* The manager holds the one open connection, or none and then none is open.
C23_AtMostOne(c, h) ==
    /\ Cardinality(OpenHandles(h)) <= 1
    /\ OpenHandles(h) = IF c = NULL THEN {} ELSE {c}

C23_Step ==
    /\ C23_AtMostOne(connection', handles')
    /\ last'.op = "close" =>
         /\ connection' = NULL
         /\ connection # NULL => handles'[connection] = "closed"
    /\ last'.op # "close" =>
         IF connection # NULL
         THEN \* the connection held is used again
              connection' = connection /\ handles' = handles
         ELSE \* a new connection is opened, not a closed one
              /\ connection' \notin DOMAIN handles
              /\ handles'[connection'] = "open"
              /\ \A i \in DOMAIN handles : handles'[i] = handles[i]

\* C23: the manager holds at most one open connection at any moment: the
\* first operation opens it, every later operation uses that same
\* connection, close() closes it and clears the reference, and an operation
\* issued after close() opens a new connection instead of using the closed
\* one.
C23_OneConnection ==
    C23_AtMostOne(connection, handles) /\ [][C23_Step]_vars

C23_Witness ==
    /\ last.op = "add_transaction"
    /\ connection = 2
    /\ handles[1] = "closed"
    /\ Cardinality(DOMAIN transactions) = 2

-----------------------------------------------------------------------------
(* Claims about transfers and the patrimony *)

\* The last handler of the view saved a transfer (new or edited) or deleted
\* a transfer group.
C24_TransferHandled(l) ==
    \/ l.op = "_confirm_delete_group"
    \/ l.op = "_save_transaction" /\ l.data["transaction_type"] = "transfer"

\* The two legs a new transfer of this dict is to leave in the store: an
\* expense and an income of its amount, one contributing -amount and the
\* other +amount.
C24_LegsStored(data, before, after) ==
    \E i, j \in DOMAIN after \ DOMAIN before :
        /\ DOMAIN after = DOMAIN before \cup {i, j}
        /\ after[i].transaction_type = "expense"
        /\ after[j].transaction_type = "income"
        /\ after[i].amount = data["amount"]
        /\ after[j].amount = data["amount"]

\* C24: creating a transfer through the transaction view, editing a transfer
\* group and deleting a transfer group each leave get_total_patrimony()
\* unchanged, the two legs contributing +amount and -amount.
C24_Step ==
    C24_TransferHandled(last') =>
        /\ get_total_patrimony(transactions') = get_total_patrimony(transactions)
        /\ (last'.op = "_save_transaction" /\ "id" \notin DOMAIN last'.data) =>
              C24_LegsStored(last'.data, transactions, transactions')

-----------------------------------------------------------------------------
(* Claims about account references *)

\* C25: after any sequence of add_category, update_category, delete_category
\* (either mode) and merge_categories calls, interleaved with add_transaction
\* calls posting to no account or to an account stored at the time, every
\* stored transaction's non-null category_id is the id of a stored account.
C25_NoDanglingReference ==
    \A i \in DOMAIN transactions :
        transactions[i].category_id # NULL =>
            transactions[i].category_id \in DOMAIN categories

-----------------------------------------------------------------------------
(* Claims about the pairing pass as a partition *)

C26_IsGroup(record) == record["transaction_type"] = "transfer_group"

\* The ids a record of the output stands for, in the order it carries them.
C26_IdsOf(record) ==
    IF C26_IsGroup(record) THEN record["ids"] ELSE <<record["id"]>>

\* The ids of the output, record after record.
RECURSIVE C26_Flattened(_)
C26_Flattened(grouped) ==
    IF grouped = <<>> THEN <<>>
    ELSE C26_IdsOf(Head(grouped)) \o C26_Flattened(Tail(grouped))

C26_Groups(grouped) == {n \in 1..Len(grouped) : C26_IsGroup(grouped[n])}

\* C26: the pairing pass partitions its input: every input id is in exactly
\* one output record (a standalone row, or one of the two ids of a single
\* transfer_group), none is dropped or duplicated, the records follow the
\* input order, and the output is shorter than the input by the number of
\* groups formed.
C26_PairingPartitions ==
    last.op = "_group_transactions" =>
        LET rows == get_all_transactions(categories, transactions)
        IN /\ last.exc = ""
           /\ C26_Flattened(last.val) = [n \in 1..Len(rows) |-> rows[n]["id"]]
           /\ \A n \in C26_Groups(last.val) : Len(last.val[n]["ids"]) = 2
           /\ Len(last.val) = Len(rows) - Cardinality(C26_Groups(last.val))

-----------------------------------------------------------------------------
(* Claims about the dashboard *)

\* The descriptions the transaction view gives to the legs of a transfer.
C27_LegDescription(desc) ==
    startswith(desc, "Virement vers ") \/ startswith(desc, "Virement de ")

\* C27: the dashboard's breakdown of the month by description, of incomes
\* and of expenses, leaves out both legs of every transfer of the
\* transaction view: no leg appears in it as an income or as an expense.
C27_BreakdownExcludesTransfers ==
    last.op = "_load_data" =>
        \A desc \in DOMAIN last.data.category_expenses
                      \cup DOMAIN last.data.category_incomes :
            ~C27_LegDescription(desc)

-----------------------------------------------------------------------------
(* Claims about deleting an account that is not stored *)

C28_DeleteStep ==
    (last'.op = "delete_category" /\ last'.id \notin DOMAIN categories) =>
        /\ ~last'.ok
        /\ categories' = categories
        /\ transactions' = transactions

\* C28: delete_category called with an id that matches no stored account
\* returns False and changes neither the accounts nor any transaction, with
\* delete_transactions true and false.
C28_DeleteUnknownAccount == [][C28_DeleteStep]_vars

-----------------------------------------------------------------------------
(* Claims about editing an account *)

C29_EditStep ==
    (last'.op = "update_category" /\ last'.data.account_type = None) =>
        /\ DOMAIN categories' = DOMAIN categories
        /\ \A id \in DOMAIN categories : categories'[id].type = categories[id].type
        /\ get_balance(categories', transactions')
             = get_balance(categories, transactions)
        /\ get_savings_total(categories', transactions')
             = get_savings_total(categories, transactions)

\* C29: update_category called without an account_type, as the accounts
\* view does when a name and a colour are edited, leaves the type of the
\* account unchanged, so an edit never moves the account's transactions
\* between get_balance() and get_savings_total().
C29_EditKeepsType == [][C29_EditStep]_vars

\* The checking account has been renamed through the view while it holds
\* transactions that count in the balance.
C29_Witness ==
    /\ last.op = "update_category"
    /\ last.data.account_type = None
    /\ last.ok
    /\ last.id = 1
    /\ categories[1].name = "Main"
    /\ categories[1].type = "checking"
    /\ get_balance(categories, transactions) # 0

-----------------------------------------------------------------------------
(* Claims about opening the store *)

C30_TypesOf(cat, type) == {i \in DOMAIN cat : cat[i].type = type}

C30_OpenStep ==
    last'.op = "__init__" =>
        /\ transactions' = transactions
        /\ IF DOMAIN categories = {}
           THEN /\ Cardinality(DOMAIN categories') = 3
                /\ Cardinality(C30_TypesOf(categories', "checking")) = 1
                /\ Cardinality(C30_TypesOf(categories', "savings")) = 2
                /\ {categories'[i].name : i \in DOMAIN categories'}
                     = {"Checking Account", "Savings Account A", "Savings Account B"}
           ELSE categories' = categories

\* C30: opening the store inserts the three default accounts (one checking,
\* two savings) if and only if the accounts table is empty at that time:
\* opening a store that holds at least one account adds none and changes
\* none.
C30_DefaultsOnlyWhenEmpty == [][C30_OpenStep]_vars

\* The store has been opened again while it held a single account that is
\* none of the defaults.
C30_Witness ==
    /\ last.op = "__init__"
    /\ last.val = 1
    /\ \E i \in DOMAIN handles : handles[i] = "closed"
    /\ \E i \in DOMAIN categories : categories[i].name = "Livret"

====
